---------------------------- MODULE Spec2Model ----------------------------
(***************************************************************************)
(* A model of the international-basketball pipeline: the per-league join   *)
(* scripts (src/scrapers/*/join_data.py), the scraper steps that write the *)
(* files the joins read, and the pure helpers they call (name             *)
(* normalisation, Greek transliteration, fuzzy name matching, height       *)
(* conversion, rounding of per-game averages).                             *)
(*                                                                         *)
(* Strings are sequences of characters.  A character is a TLA+ string: a   *)
(* Latin letter, digit, blank or punctuation mark is the one-character     *)
(* string itself; a non-ASCII character is written by its name ("Kappa"    *)
(* for GREEK CAPITAL LETTER KAPPA, "e-acute" for LATIN SMALL LETTER E WITH *)
(* ACUTE).  Python's None is the one-element sequence None below.          *)
(***************************************************************************)
EXTENDS Integers, Sequences, FiniteSets, TLC

VARIABLES
    fn,        \* the function, script, helper or view being called
    arg,       \* its argument(s); after a join run, what its loaders returned
    ret,       \* the values returned so far, one per call; how a run ended
    league,    \* the league directory the runs work in
    files,     \* that directory's output/json: file -> its content
    unified,   \* the players of unified_american_players_latest.json; under
               \* SpecHeal the directory that runs without failed fetches leave
    runs       \* number of runs so far

vars == <<fn, arg, ret, league, files, unified, runs>>

-----------------------------------------------------------------------------
(* Values *)

None == <<"<None>">>

\* record.get(field, default)
GetOr(record, field, default) ==
    IF field \in DOMAIN record THEN record[field] ELSE default

Min(a, b) == IF a <= b THEN a ELSE b
Max(a, b) == IF a >= b THEN a ELSE b

RECURSIVE SumSeq(_)
SumSeq(s) == IF s = <<>> THEN 0 ELSE Head(s) + SumSeq(Tail(s))

RECURSIVE Flatten(_)
Flatten(ss) == IF ss = <<>> THEN <<>> ELSE Head(ss) \o Flatten(Tail(ss))

\* a file of output/json: absent, or present with its parsed content
NoFile == <<>>
FileOf(content) == <<content>>
Exists(file) == Len(file) > 0
Content(file) == file[1]

NoFiles ==
    [players |-> NoFile, boxscores |-> NoFile, performances |-> NoFile,
     stats |-> NoFile, schedule |-> NoFile, tsdb |-> NoFile, hometowns |-> NoFile]

\* All sequences over S with length at most n, and those without repetition.
RECURSIVE SeqsUpTo(_, _)
SeqsUpTo(S, n) ==
    IF n = 0 THEN {<<>>}
    ELSE LET shorter == SeqsUpTo(S, n - 1)
         IN  shorter \cup {Append(s, x) : s \in {t \in shorter : Len(t) = n - 1}, x \in S}

Range(s) == {s[i] : i \in 1..Len(s)}
DistinctSeqsUpTo(S, n) == {s \in SeqsUpTo(S, n) : Cardinality(Range(s)) = Len(s)}

-----------------------------------------------------------------------------
(* Characters *)

UpperLetters == <<"A","B","C","D","E","F","G","H","I","J","K","L","M",
                  "N","O","P","Q","R","S","T","U","V","W","X","Y","Z">>
LowerLetters == <<"a","b","c","d","e","f","g","h","i","j","k","l","m",
                  "n","o","p","q","r","s","t","u","v","w","x","y","z">>
Digits == <<"0","1","2","3","4","5","6","7","8","9">>

IsUpper(c) == \E i \in 1..26 : UpperLetters[i] = c
IsLower(c) == \E i \in 1..26 : LowerLetters[i] = c
IsLetter(c) == IsUpper(c) \/ IsLower(c)
IsSpace(c) == c = " "
IsDigit(c) == \E i \in 1..10 : Digits[i] = c
IsPunct(c) == c \in {",", ".", "-", "#", "'"}
\* ord(c) < 128
IsAscii(c) == IsLetter(c) \/ IsSpace(c) \/ IsDigit(c) \/ IsPunct(c)

\* str.lower() on one character
LowerChar(c) ==
    IF IsUpper(c) THEN LowerLetters[CHOOSE i \in 1..26 : UpperLetters[i] = c] ELSE c

\* ord(c) of the ASCII characters that occur in the names and dates that are
\* compared; every other character lies above the ASCII range.
CharCode(c) ==
    IF c = " " THEN 32
    ELSE IF c = "#" THEN 35
    ELSE IF c = "'" THEN 39
    ELSE IF c = "," THEN 44
    ELSE IF c = "-" THEN 45
    ELSE IF c = "." THEN 46
    ELSE IF c = "_" THEN 95
    ELSE IF IsDigit(c) THEN 47 + (CHOOSE i \in 1..10 : Digits[i] = c)
    ELSE IF IsUpper(c) THEN 64 + (CHOOSE i \in 1..26 : UpperLetters[i] = c)
    ELSE IF IsLower(c) THEN 96 + (CHOOSE i \in 1..26 : LowerLetters[i] = c)
    ELSE 128

-----------------------------------------------------------------------------
(* Strings *)

Lower(s) == [i \in 1..Len(s) |-> LowerChar(s[i])]

RECURSIVE LStrip(_)
LStrip(s) == IF s # <<>> /\ IsSpace(Head(s)) THEN LStrip(Tail(s)) ELSE s

RECURSIVE RStrip(_)
RStrip(s) ==
    IF s # <<>> /\ IsSpace(s[Len(s)]) THEN RStrip(SubSeq(s, 1, Len(s) - 1)) ELSE s

\* str.strip()
Strip(s) == RStrip(LStrip(s))

\* str.split(): the maximal runs of non-blank characters
RECURSIVE SplitFrom(_, _, _)
SplitFrom(s, cur, acc) ==
    IF s = <<>> THEN (IF cur = <<>> THEN acc ELSE Append(acc, cur))
    ELSE IF IsSpace(Head(s))
         THEN SplitFrom(Tail(s), <<>>, IF cur = <<>> THEN acc ELSE Append(acc, cur))
         ELSE SplitFrom(Tail(s), Append(cur, Head(s)), acc)
Split(s) == SplitFrom(s, <<>>, <<>>)

\* ' '.join(parts)
RECURSIVE JoinSpace(_)
JoinSpace(parts) ==
    IF parts = <<>> THEN <<>>
    ELSE IF Len(parts) = 1 THEN parts[1]
    ELSE parts[1] \o <<" ">> \o JoinSpace(Tail(parts))

\* s[:n]
Prefix(s, n) == SubSeq(s, 1, Min(n, Len(s)))

\* s.startswith(p) / s.endswith(p)
StartsWith(s, p) == Len(p) <= Len(s) /\ SubSeq(s, 1, Len(p)) = p
EndsWith(s, p) == Len(p) <= Len(s) /\ SubSeq(s, Len(s) - Len(p) + 1, Len(s)) = p

\* a in b
Contains(b, a) == \E i \in 0..(Len(b) - Len(a)) : SubSeq(b, i + 1, i + Len(a)) = a

\* a < b for Python strings: lexicographic by code point
RECURSIVE StrLess(_, _)
StrLess(a, b) ==
    IF b = <<>> THEN FALSE
    ELSE IF a = <<>> THEN TRUE
    ELSE IF CharCode(Head(a)) # CharCode(Head(b)) THEN CharCode(Head(a)) < CharCode(Head(b))
    ELSE StrLess(Tail(a), Tail(b))

\* Python truthiness of an optional string: None and '' are false
Truthy(s) == s # None /\ s # <<>>

-----------------------------------------------------------------------------
(* ESAKE join: Greek transliteration and name normalisation                *)

\* GREEK_TO_LATIN in the order transliterate_greek applies it: sorted by
\* -len(key), a stable sort, so the digraphs come first in dictionary
\* order and the single letters follow.  The capital letters only: the box
\* score keys are written in capitals.
GREEK_TO_LATIN ==
    << <<<<"Gamma","Kappa">>, <<"G">>>>,      <<<<"Mu","Pi">>, <<"B">>>>,
       <<<<"Nu","Tau">>, <<"D">>>>,           <<<<"Omicron","Upsilon">>, <<"U">>>>,
       <<<<"Alpha","Iota">>, <<"E">>>>,       <<<<"Epsilon","Iota">>, <<"I">>>>,
       <<<<"Omicron","Iota">>, <<"I">>>>,     <<<<"Alpha","Upsilon">>, <<"A","V">>>>,
       <<<<"Epsilon","Upsilon">>, <<"E","V">>>>,
       <<<<"Alpha">>, <<"A">>>>,   <<<<"Beta">>, <<"V">>>>,    <<<<"Gamma">>, <<"G">>>>,
       <<<<"Delta">>, <<"D">>>>,   <<<<"Epsilon">>, <<"E">>>>, <<<<"Zeta">>, <<"Z">>>>,
       <<<<"Eta">>, <<"I">>>>,     <<<<"Theta">>, <<"T","H">>>>, <<<<"Iota">>, <<"I">>>>,
       <<<<"Kappa">>, <<"K">>>>,   <<<<"Lambda">>, <<"L">>>>,  <<<<"Mu">>, <<"M">>>>,
       <<<<"Nu">>, <<"N">>>>,      <<<<"Xi">>, <<"X">>>>,      <<<<"Omicron">>, <<"O">>>>,
       <<<<"Pi">>, <<"P">>>>,      <<<<"Rho">>, <<"R">>>>,     <<<<"Sigma">>, <<"S">>>>,
       <<<<"Tau">>, <<"T">>>>,     <<<<"Upsilon">>, <<"Y">>>>, <<<<"Phi">>, <<"F">>>>,
       <<<<"Chi">>, <<"C","H">>>>, <<<<"Psi">>, <<"P","S">>>>, <<<<"Omega">>, <<"O">>>> >>

\* for greek, latin in sorted(...): result = result.replace(greek, latin).
\* No letter ends one digraph and begins another (the digraphs end in
\* Kappa, Pi, Tau, Upsilon, Iota and begin with Gamma, Mu, Nu, Omicron,
\* Alpha, Epsilon), and every replacement is Latin, so the replacements one
\* after the other give what one pass from the left gives: a digraph where
\* one starts, else the single letter, else the character itself.
TableEntries(key) == {k \in 1..Len(GREEK_TO_LATIN) : GREEK_TO_LATIN[k][1] = key}
IsDigraphAt(s, i) == i >= 1 /\ i < Len(s) /\ TableEntries(<<s[i], s[i + 1]>>) # {}
ReplacedAt(s, i) ==
    IF IsDigraphAt(s, i - 1) THEN <<>>
    ELSE IF IsDigraphAt(s, i)
         THEN GREEK_TO_LATIN[CHOOSE k \in TableEntries(<<s[i], s[i + 1]>>) : TRUE][2]
    ELSE IF TableEntries(<<s[i]>>) # {}
         THEN GREEK_TO_LATIN[CHOOSE k \in TableEntries(<<s[i]>>) : TRUE][2]
    ELSE <<s[i]>>
ReplaceEach(s) == Flatten([i \in 1..Len(s) |-> ReplacedAt(s, i)])

transliterate_greek(text) ==
    IF ~Truthy(text) THEN <<>>
    ELSE Strip(SelectSeq(ReplaceEach(text), IsAscii))

\* re.sub(r'[^a-zA-Z\s]', '', s)
IsLetterOrSpace(c) == IsLetter(c) \/ IsSpace(c)

esake_normalize_name(name) ==
    IF ~Truthy(name) THEN <<>>
    ELSE JoinSpace(Split(SelectSeq(Lower(transliterate_greek(name)), IsLetterOrSpace)))

-----------------------------------------------------------------------------
(* Scrapers and the LBA / BSL joins: NFKD, ASCII, lower case, suffix       *)

\* unicodedata.normalize('NFKD', c).encode('ASCII', 'ignore').decode('ASCII')
\* of one character: an accented Latin letter keeps its base letter, the
\* no-break space becomes a blank, any other non-ASCII character is dropped.
NfkdAsciiChar(c) ==
    IF IsAscii(c) THEN <<c>>
    ELSE IF c = "e-acute" THEN <<"e">>
    ELSE IF c = "E-acute" THEN <<"E">>
    ELSE IF c = "c-cedilla" THEN <<"c">>
    ELSE IF c = "no-break-space" THEN <<" ">>
    ELSE <<>>

NfkdAscii(s) == Flatten([i \in 1..Len(s) |-> NfkdAsciiChar(s[i])])

\* The alternatives of the group in r'\s+(jr\.?|sr\.?|iii|ii|iv)$'
GenerationSuffixes ==
    { <<"j","r">>, <<"j","r",".">>, <<"s","r">>, <<"s","r",".">>,
      <<"i","i","i">>, <<"i","i">>, <<"i","v">> }

\* re.sub(r'\s+(jr\.?|sr\.?|iii|ii|iv)$', '', name, flags=re.IGNORECASE):
\* the one match there can be is a run of blanks followed by an alternative
\* that reaches the end of the string; it is removed, blanks included.
StripGenerationSuffix(name) ==
    IF \E t \in GenerationSuffixes :
           /\ EndsWith(Lower(name), t)
           /\ Len(name) > Len(t)
           /\ IsSpace(name[Len(name) - Len(t)])
    THEN LET t == CHOOSE u \in GenerationSuffixes :
                      /\ EndsWith(Lower(name), u)
                      /\ Len(name) > Len(u)
                      /\ IsSpace(name[Len(name) - Len(u)])
         IN  RStrip(SubSeq(name, 1, Len(name) - Len(t)))
    ELSE name

esake_scraper_normalize_name(name) ==
    IF ~Truthy(name) THEN <<>>
    ELSE StripGenerationSuffix(Strip(Lower(NfkdAscii(name))))

lba_scraper_normalize_name(name) ==
    IF ~Truthy(name) THEN <<>>
    ELSE StripGenerationSuffix(Strip(Lower(NfkdAscii(name))))

lba_normalize_name(name) ==
    IF ~Truthy(name) THEN <<>>
    ELSE Strip(Lower(NfkdAscii(name)))

\* unicodedata.normalize('NFKD', None) raises TypeError
TypeErrorRaised == <<"<TypeError>">>

\* bsl/join_data.py main, for each TheSportsDB and each BSL player:
\* name = p.get('name', ''), which is None for a name that is null, and then
\* the same three steps with no test of the name before them
bsl_inline_name_norm(name) ==
    IF name = None THEN TypeErrorRaised
    ELSE Strip(Lower(NfkdAscii(name)))

-----------------------------------------------------------------------------
(* ESAKE join: match_names                                                 *)

MinMatchScore == 3
PartMinLen == 3
SubstringPoints == 2
PrefixPoints == 1
PrefixLen == 3
BonusPoints == 3
BonusPrefixLen == 4

\* The body of the two nested loops over (eng_part, greek_part).
part_score(eng_part, greek_part) ==
    IF Len(eng_part) >= PartMinLen /\ Len(greek_part) >= PartMinLen
    THEN IF Contains(greek_part, eng_part) \/ Contains(eng_part, greek_part)
         THEN SubstringPoints
         ELSE IF Prefix(eng_part, PrefixLen) = Prefix(greek_part, PrefixLen)
              THEN PrefixPoints
              ELSE 0
    ELSE 0

\* (variant: the bonus without the test len(eng_parts) >= 2)
bonus_score_single_token(eng_parts, greek_parts) ==
    IF Len(eng_parts) >= 1 /\ Len(greek_parts) >= 1
    THEN LET eng_last == eng_parts[Len(eng_parts)]
             greek_first == greek_parts[1]
         IN  IF /\ Len(eng_last) >= PartMinLen
                /\ Len(greek_first) >= PartMinLen
                /\ Prefix(eng_last, BonusPrefixLen) = Prefix(greek_first, BonusPrefixLen)
             THEN BonusPoints
             ELSE 0
    ELSE 0

\* "Bonus for matching last name (usually listed first in Greek)"
bonus_score(eng_parts, greek_parts) ==
    IF Len(eng_parts) >= 2 /\ Len(greek_parts) >= 1
    THEN LET eng_last == eng_parts[Len(eng_parts)]
             greek_first == greek_parts[1]
         IN  IF /\ Len(eng_last) >= PartMinLen
                /\ Len(greek_first) >= PartMinLen
                /\ Prefix(eng_last, BonusPrefixLen) = Prefix(greek_first, BonusPrefixLen)
             THEN BonusPoints
             ELSE 0
    ELSE 0

\* The value of `score` when the loop body ends for one candidate.
name_score(eng_parts, greek_parts) ==
    SumSeq(Flatten([i \in 1..Len(eng_parts) |->
                      [j \in 1..Len(greek_parts) |->
                          part_score(eng_parts[i], greek_parts[j])]]))
    + bonus_score(eng_parts, greek_parts)

\* (variant: a later candidate with an equal score replaces the earlier one)
better_score_or_equal(score, best_score) == score >= best_score

\* if score > best_score: best_score = score; best_match = greek_name
better_score(score, best_score) == score > best_score

\* for greek_name in greek_names_dict.keys(): ... over the keys in their
\* iteration order, carrying (best_match, best_score).
RECURSIVE match_loop(_, _, _, _)
match_loop(eng_parts, keys, best_match, best_score) ==
    IF keys = <<>> THEN <<best_match, best_score>>
    ELSE LET greek_name == Head(keys)
             greek_parts == Split(esake_normalize_name(greek_name))
         IN  IF greek_parts = <<>>
             THEN match_loop(eng_parts, Tail(keys), best_match, best_score)
             ELSE LET score == name_score(eng_parts, greek_parts)
                  IN  IF better_score(score, best_score)
                      THEN match_loop(eng_parts, Tail(keys), greek_name, score)
                      ELSE match_loop(eng_parts, Tail(keys), best_match, best_score)

\* (variant: the threshold one point lower)
accept_score_from_2(best_score) == best_score >= MinMatchScore - 1

\* Only return match if score is high enough
accept_score(best_score) == best_score >= MinMatchScore

match_names(english_name, keys) ==
    IF ~Truthy(english_name) THEN None
    ELSE LET eng_parts == Split(esake_normalize_name(english_name))
         IN  IF eng_parts = <<>> THEN None
             ELSE LET best == match_loop(eng_parts, keys, None, 0)
                  IN  IF accept_score(best[2]) THEN best[1] ELSE None

\* The scores the loop assigns, candidate by candidate (-1: the candidate
\* is skipped by `continue`, or the function returned before the loop).
match_scores(english_name, keys) ==
    LET eng_parts == IF Truthy(english_name)
                     THEN Split(esake_normalize_name(english_name)) ELSE <<>>
    IN  [i \in 1..Len(keys) |->
            LET greek_parts == Split(esake_normalize_name(keys[i]))
            IN  IF eng_parts = <<>> \/ greek_parts = <<>> THEN -1
                ELSE name_score(eng_parts, greek_parts)]

-----------------------------------------------------------------------------
(* Height conversion                                                       *)

\* None where an integer is expected
NoneInt == 0 - 1
NoHeight == <<NoneInt, NoneInt>>

\* cm / 2.54 is cm * 50 / 127 inches.  For integer cm the quotient
\* total_inches // 12 and the remainder total_inches % 12 are exactly
\* (cm * 50) \div 1524 and ((cm * 50) % 1524) / 127; the remainder is never
\* half-way between two integers (2 * r = 127 * odd has no solution), so
\* round() is "nearest", and the float results agree with these integers
\* for every cm in 1..400.
InchDenominator == 127
InchNumerator == 50
InchesPerFoot == 12

total_inches_div_12(cm) == (cm * InchNumerator) \div (InchesPerFoot * InchDenominator)
\* total_inches % 12, as a numerator over InchDenominator
total_inches_mod_12(cm) == (cm * InchNumerator) % (InchesPerFoot * InchDenominator)

\* int(round(total_inches % 12))
round_inches(cm) == (2 * total_inches_mod_12(cm) + InchDenominator) \div (2 * InchDenominator)
\* (variant: the centimetres themselves taken modulo 12)
trunc_cm_mod_12(cm) == cm % InchesPerFoot

\* int(total_inches % 12)
trunc_inches(cm) == total_inches_mod_12(cm) \div InchDenominator

\* "Handle rounding to 12 inches": if inches == 12: feet += 1; inches = 0
carry_inches(feet, inches) ==
    IF inches = InchesPerFoot THEN <<feet + 1, 0>> ELSE <<feet, inches>>

\* euroleague/join_data.py cm_to_feet_inches(cm); `not cm` holds of None and 0
euroleague_cm_to_feet_inches(cm) ==
    IF cm = NoneInt \/ cm = 0 THEN NoHeight
    ELSE carry_inches(total_inches_div_12(cm), round_inches(cm))

\* esake/join_data.py main: the inline conversion of player['height_cm']
esake_height(height_cm) ==
    IF height_cm = NoneInt \/ height_cm = 0 THEN NoHeight
    ELSE <<total_inches_div_12(height_cm), trunc_inches(height_cm)>>

\* lnb/join_data.py main: the same inline conversion
lnb_height(height_cm) ==
    IF height_cm = NoneInt \/ height_cm = 0 THEN NoHeight
    ELSE <<total_inches_div_12(height_cm), trunc_inches(height_cm)>>

\* int(digits)
RECURSIVE ToInt(_)
ToInt(ds) ==
    IF ds = <<>> THEN 0
    ELSE 10 * ToInt(SubSeq(ds, 1, Len(ds) - 1))
         + ((CHOOSE i \in 1..10 : Digits[i] = ds[Len(ds)]) - 1)

\* The end of the run of characters satisfying the test that starts at i
\* (i - 1 when s[i] does not satisfy it).
RECURSIVE DigitRunEnd(_, _)
DigitRunEnd(s, i) == IF i <= Len(s) /\ IsDigit(s[i]) THEN DigitRunEnd(s, i + 1) ELSE i - 1
RECURSIVE SpaceRunEnd(_, _)
SpaceRunEnd(s, i) == IF i <= Len(s) /\ IsSpace(s[i]) THEN SpaceRunEnd(s, i + 1) ELSE i - 1

\* re.search(r'(\d+)\s*(?:u1|u2)', s): group(1) of the leftmost match, or
\* None.  A match starts at the first digit of a run of digits, takes the
\* whole run and the blanks after it, and then needs one of the units.
NumberBeforeUnit(s, units) ==
    LET starts == {i \in 1..Len(s) :
                      /\ IsDigit(s[i])
                      /\ (i = 1 \/ ~IsDigit(s[i - 1]))
                      /\ \E u \in units :
                            StartsWith(SubSeq(s, SpaceRunEnd(s, DigitRunEnd(s, i) + 1) + 1, Len(s)), u)}
    IN  IF starts = {} THEN None
        ELSE LET i == CHOOSE k \in starts : \A m \in starts : k <= m
             IN  SubSeq(s, i, DigitRunEnd(s, i))

\* re.search(r'(\d+\.?\d*)\s*m', s) for a string with at most two decimals:
\* the number in hundredths (float(group(1)) * 100), or NoneInt.
MetersTimes100(s) ==
    LET starts == {i \in 1..Len(s) :
                      /\ IsDigit(s[i])
                      /\ (i = 1 \/ ~IsDigit(s[i - 1]))
                      /\ LET e1 == DigitRunEnd(s, i)
                             e2 == IF e1 < Len(s) /\ s[e1 + 1] = "."
                                   THEN DigitRunEnd(s, e1 + 2) ELSE e1
                         IN  StartsWith(SubSeq(s, SpaceRunEnd(s, e2 + 1) + 1, Len(s)), <<"m">>)}
    IN  IF starts = {} THEN NoneInt
        ELSE LET i == CHOOSE k \in starts : \A m \in starts : k <= m
                 e1 == DigitRunEnd(s, i)
                 frac == IF e1 < Len(s) /\ s[e1 + 1] = "."
                         THEN SubSeq(s, e1 + 2, DigitRunEnd(s, e1 + 2)) ELSE <<>>
                 whole == ToInt(SubSeq(s, i, e1))
             IN  IF Len(frac) = 0 THEN 100 * whole
                 ELSE IF Len(frac) = 1 THEN 100 * whole + 10 * ToInt(frac)
                 ELSE 100 * whole + ToInt(SubSeq(frac, 1, 2))

\* lba/join_data.py cm_to_feet_inches(height_str)
lba_cm_to_feet_inches(height_str) ==
    IF ~Truthy(height_str) THEN NoHeight
    ELSE LET s == Lower(height_str)
             cm_match == NumberBeforeUnit(s, {<<"c","m">>})
             ft_match == NumberBeforeUnit(s, {<<"f","t">>, <<"'">>})
             in_match == NumberBeforeUnit(s, {<<"i","n">>, <<"\"">>})
             m_match == MetersTimes100(s)
         IN  IF cm_match # None
             THEN carry_inches(total_inches_div_12(ToInt(cm_match)), round_inches(ToInt(cm_match)))
             ELSE IF ft_match # None
             THEN <<ToInt(ft_match), IF in_match # None THEN ToInt(in_match) ELSE 0>>
             ELSE IF m_match # NoneInt
             THEN carry_inches(total_inches_div_12(m_match), round_inches(m_match))
             ELSE NoHeight

-----------------------------------------------------------------------------
(* Per-game averages                                                       *)

\* (variant: the quotient cut to one decimal, as int(10 * x) / 10 would)
trunc_tenths(total, games) == (10 * total) \div games

\* round(total / games, 1) in tenths, for games > 0.  Python rounds the
\* float total / games to the nearest tenth; the tenth is in doubt only at
\* a tie, and with fewer than 20 games a tie is a multiple of 0.25, which
\* the float holds exactly and round() sends to the even tenth.
round_tenths(total, games) ==
    LET q == (10 * total) \div games
        r == (10 * total) % games
    IN  IF 2 * r < games THEN q
        ELSE IF 2 * r > games THEN q + 1
        ELSE IF q % 2 = 0 THEN q ELSE q + 1

-----------------------------------------------------------------------------
(* Calls of the pure helpers                                               *)

MaxCands == 3
MaxNamePieces == 3
MaxCm == 230

\* int -> its decimal digits
RECURSIVE DigitsOf(_)
DigitsOf(n) == IF n < 10 THEN <<Digits[n + 1]>> ELSE Append(DigitsOf(n \div 10), Digits[(n % 10) + 1])

SharifeCooper == <<"S","h","a","r","i","f","e"," ","C","o","o","p","e","r">>
CooperSharife == <<"C","o","o","p","e","r",","," ","S","h","a","r","i","f","e">>
FrankBartley == <<"F","r","a","n","k"," ","B","a","r","t","l","e","y">>
\* box score keys of AMERICAN_PLAYER_MAPPINGS
KouperSarife == <<"Kappa","Omicron","Upsilon","Pi","Epsilon","Rho",
                  "Sigma","Alpha","Rho","Iota","Phi","Epsilon">>
KouperSarife2 == <<"Kappa","Omicron","Upsilon","Pi","Epsilon","Rho",
                   "Sigma","Alpha","Rho","Eta","Phi","Epsilon">>
BartleyFrank == <<"Mu","Pi","A","Rho","Tau","Lambda","Epsilon","Iota-dialytika",
                  "Phi","Rho","A","Nu","Kappa">>

MatchEnglishNames ==
    { None, <<>>, <<",", " ", ".">>, SharifeCooper, CooperSharife, FrankBartley,
      <<"C","o","o","p","e","r">>, <<"A","l"," ","C","o","o","p">> }

MatchKeys ==
    { KouperSarife, BartleyFrank, SharifeCooper, <<"#","#">>,
      <<"C","o","o","p","e","r"," ","A","l">>,
      <<"C","o","o","p"," ","A","l">> }

NamePieces ==
    { <<"A","l">>, <<" ","J","r",".">>, <<" ","I","I","I">>, <<" ">>,
      <<"e-acute">>, <<"Kappa","Omicron","Upsilon">>, <<",">> }

NormalizerInputs ==
    {None} \cup {Flatten(ps) : ps \in SeqsUpTo(NamePieces, MaxNamePieces)}

HeightInputs == {NoneInt} \cup 0..MaxCm

LbaHeightStrings ==
    { None, <<>>,
      <<"6"," ","f","t"," ","5"," ","i","n"," ","(","1","9","6"," ","c","m",")">>,
      <<"6"," ","f","t"," ","5"," ","i","n">>, <<"6","'","5","\"">>, <<"6"," ","f","t">>,
      <<"1",".","9","6"," ","m">>, <<"2"," ","m">>, <<"1",".","9"," ","M">>, <<"1","9","6">> }
    \cup {DigitsOf(cm) \o <<" ","c","m">> : cm \in 0..MaxCm}
    \cup {DigitsOf(cm) \o <<"C","M">> : cm \in 0..MaxCm}

Normalizers ==
    {"esake_normalize_name", "esake_scraper_normalize_name",
     "lba_scraper_normalize_name", "lba_normalize_name"}
HeightCalls == {"euroleague_cm_to_feet_inches", "esake_height", "lnb_height"}

InitCalls ==
    /\ league = "none" /\ files = NoFiles /\ unified = <<>> /\ runs = 0
    /\ ret = <<>>
    /\ \/ fn = "match_names"
          /\ arg \in [english_name : MatchEnglishNames,
                      greek_names : DistinctSeqsUpTo(MatchKeys, MaxCands)]
       \/ fn \in Normalizers /\ arg \in NormalizerInputs
       \/ fn = "bsl_inline_name_norm" /\ arg \in NormalizerInputs
       \/ fn \in HeightCalls /\ arg \in HeightInputs
       \/ fn = "lba_cm_to_feet_inches" /\ arg \in LbaHeightStrings

Returned(value) ==
    /\ ret' = Append(ret, value)
    /\ UNCHANGED <<fn, arg, league, files, unified, runs>>

CallMatchNames ==
    /\ fn = "match_names" /\ ret = <<>>
    /\ Returned([match |-> match_names(arg.english_name, arg.greek_names),
                 scores |-> match_scores(arg.english_name, arg.greek_names)])

\* A normalizer is called on the name, and then once more on what it returned.
NormalizerInput == IF ret = <<>> THEN arg ELSE ret[Len(ret)]

CallEsakeNormalizeName ==
    /\ fn = "esake_normalize_name" /\ Len(ret) < 2
    /\ Returned(esake_normalize_name(NormalizerInput))

CallEsakeScraperNormalizeName ==
    /\ fn = "esake_scraper_normalize_name" /\ Len(ret) < 2
    /\ Returned(esake_scraper_normalize_name(NormalizerInput))

CallLbaScraperNormalizeName ==
    /\ fn = "lba_scraper_normalize_name" /\ Len(ret) < 2
    /\ Returned(lba_scraper_normalize_name(NormalizerInput))

CallLbaNormalizeName ==
    /\ fn = "lba_normalize_name" /\ Len(ret) < 2
    /\ Returned(lba_normalize_name(NormalizerInput))

CallBslInlineNameNorm ==
    /\ fn = "bsl_inline_name_norm" /\ ret = <<>>
    /\ Returned(bsl_inline_name_norm(arg))

CallEuroleagueCmToFeetInches ==
    /\ fn = "euroleague_cm_to_feet_inches" /\ ret = <<>>
    /\ Returned(euroleague_cm_to_feet_inches(arg))

CallEsakeHeight ==
    /\ fn = "esake_height" /\ ret = <<>>
    /\ Returned(esake_height(arg))

CallLnbHeight ==
    /\ fn = "lnb_height" /\ ret = <<>>
    /\ Returned(lnb_height(arg))

CallLbaCmToFeetInches ==
    /\ fn = "lba_cm_to_feet_inches" /\ ret = <<>>
    /\ Returned(lba_cm_to_feet_inches(arg))

NextCalls ==
    \/ CallMatchNames
    \/ CallEsakeNormalizeName
    \/ CallEsakeScraperNormalizeName
    \/ CallLbaScraperNormalizeName
    \/ CallLbaNormalizeName
    \/ CallBslInlineNameNorm
    \/ CallEuroleagueCmToFeetInches
    \/ CallEsakeHeight
    \/ CallLnbHeight
    \/ CallLbaCmToFeetInches

SpecCalls == InitCalls /\ [][NextCalls]_vars

-----------------------------------------------------------------------------
(* The joins: values shared by the leagues                                 *)

MaxGames == 3

Date1 == <<"2","0","2","5","-","0","1","-","0","5">>
Date2 == <<"2","0","2","5","-","0","2","-","0","1">>
\* a game's date as the sources give it; null when the page had none
Dates == {None, Date1, Date2}

\* one player's line in a box score
QuietGame == [points |-> 0, rebounds |-> 1, assists |-> 2]
ScoringGame == [points |-> 1, rebounds |-> 0, assists |-> 0]

\* the games a scrape can find: an undated one, two of the same day, and
\* a later one; GameLists are the scrapes, in the order they list the games
Games ==
    { [date |-> None, stat |-> QuietGame],
      [date |-> Date1, stat |-> QuietGame],
      [date |-> Date1, stat |-> ScoringGame],
      [date |-> Date2, stat |-> ScoringGame] }
GameLists == SeqsUpTo(Games, MaxGames)

Chicago == <<"C","h","i","c","a","g","o">>
Illinois == <<"I","l","l","i","n","o","i","s">>
HometownCities == {None, <<>>, Chicago}
HometownStates == {None, Illinois}

\* (variant: a null date takes a key above every date)
DateOrHigh(entry) == IF Truthy(entry.date) THEN entry.date ELSE <<"9">>

\* key=lambda x: x.get('date') or ''
DateOrEmpty(entry) == IF Truthy(entry.date) THEN entry.date ELSE <<>>

\* list.sort(key=..., reverse=True) is stable: an entry goes behind the
\* entries whose key is not smaller than its own.
RECURSIVE InsertByDateDesc(_, _)
InsertByDateDesc(sorted, x) ==
    IF Len(sorted) = 0 THEN <<x>>
    ELSE IF StrLess(DateOrEmpty(Head(sorted)), DateOrEmpty(x)) THEN <<x>> \o sorted
    ELSE <<Head(sorted)>> \o InsertByDateDesc(Tail(sorted), x)

\* games.sort(key=lambda x: x.get('date') or '', reverse=True)
RECURSIVE sort_by_date_desc(_)
sort_by_date_desc(games) ==
    IF Len(games) = 0 THEN <<>>
    ELSE InsertByDateDesc(sort_by_date_desc(SubSeq(games, 1, Len(games) - 1)),
                          games[Len(games)])

\* list.sort(key=lambda x: x.get('date') or ''): ascending and stable
RECURSIVE InsertByDate(_, _)
InsertByDate(sorted, x) ==
    IF Len(sorted) = 0 THEN <<x>>
    ELSE IF StrLess(DateOrEmpty(x), DateOrEmpty(Head(sorted))) THEN <<x>> \o sorted
    ELSE <<Head(sorted)>> \o InsertByDate(Tail(sorted), x)

RECURSIVE sort_by_date(_)
sort_by_date(games) ==
    IF Len(games) = 0 THEN <<>>
    ELSE InsertByDate(sort_by_date(SubSeq(games, 1, Len(games) - 1)), games[Len(games)])

\* key=lambda x: x.get('date', ''): the entries carry the key 'date', so a
\* null date is the key itself, and comparing it with any other key raises
\* TypeError; a list of fewer than two entries is never compared.
sort_by_date_raises(games) ==
    Len(games) >= 2 /\ \E i \in 1..Len(games) : games[i].date = None

\* unified_players.sort(key=lambda x: x.get('name', ''))
RECURSIVE InsertByName(_, _)
InsertByName(sorted, x) ==
    IF Len(sorted) = 0 THEN <<x>>
    ELSE IF StrLess(x.name, Head(sorted).name) THEN <<x>> \o sorted
    ELSE <<Head(sorted)>> \o InsertByName(Tail(sorted), x)

RECURSIVE sort_by_name(_)
sort_by_name(players) ==
    IF Len(players) = 0 THEN <<>>
    ELSE InsertByName(sort_by_name(SubSeq(players, 1, Len(players) - 1)),
                      players[Len(players)])

\* unified_players.sort(key=lambda x: x.get('ppg', 0), reverse=True)
RECURSIVE InsertByPpgDesc(_, _)
InsertByPpgDesc(sorted, x) ==
    IF Len(sorted) = 0 THEN <<x>>
    ELSE IF Head(sorted).ppg < x.ppg THEN <<x>> \o sorted
    ELSE <<Head(sorted)>> \o InsertByPpgDesc(Tail(sorted), x)

RECURSIVE sort_by_ppg_desc(_)
sort_by_ppg_desc(players) ==
    IF Len(players) = 0 THEN <<>>
    ELSE InsertByPpgDesc(sort_by_ppg_desc(SubSeq(players, 1, Len(players) - 1)),
                         players[Len(players)])

\* round(sum(...) / games_played, 1) if games_played > 0 else 0, in tenths
rounded_average(values) ==
    IF Len(values) > 0 THEN round_tenths(SumSeq(values), Len(values)) ELSE 0

PointsOf(games) == [i \in 1..Len(games) |-> games[i].points]
ReboundsOf(games) == [i \in 1..Len(games) |-> games[i].rebounds]
AssistsOf(games) == [i \in 1..Len(games) |-> games[i].assists]

\* str(value) inside an f-string
FormatStr(value) == IF value = None THEN <<"N","o","n","e">> ELSE value

\* (variant: the string is built when either part is there)
hometown_if_either(city, state) ==
    IF Truthy(city) \/ Truthy(state)
    THEN FormatStr(city) \o <<",", " ">> \o FormatStr(state)
    ELSE None

\* f"{city}, {state}" if city and state else None
hometown_string(city, state) ==
    IF Truthy(city) /\ Truthy(state)
    THEN FormatStr(city) \o <<",", " ">> \o FormatStr(state)
    ELSE None

\* Every join has run at most once in the pipeline run the model follows.
JoinOutcome(outcome, players) ==
    /\ ret' = <<outcome>>
    /\ unified' = players
    /\ runs' = runs + 1
    /\ UNCHANGED <<fn, arg, league, files>>

WriteFiles(written) ==
    /\ files' = written
    /\ UNCHANGED <<fn, arg, ret, league, unified, runs>>

-----------------------------------------------------------------------------
(* ESAKE join (src/scrapers/esake/join_data.py main)                       *)

CooperSharifeKey == <<"C","o","o","p","e","r"," ","S","h","a","r","i","f","e">>
BlankName == <<" ", " ">>

\* AMERICAN_PLAYER_MAPPINGS, the entries of the players that occur in the
\* inputs below: English name -> box score name patterns, in listed order
AMERICAN_PLAYER_MAPPINGS ==
    << <<FrankBartley, <<BartleyFrank>> >>,
       <<SharifeCooper, <<KouperSarife, KouperSarife2>> >> >>

\* The names a box score lists: the first is the home side's player, the
\* others the away side's.
EsakeLineups ==
    { <<KouperSarife2, KouperSarife>>,
      <<SharifeCooper, KouperSarife2>>,
      <<CooperSharifeKey, KouperSarife>>,
      <<BartleyFrank, BlankName>> }

\* esake_american_stats_latest.json: the players list, which esake_scraper.py
\* sorts by name before it saves it
EsakePlayerFiles ==
    { << [name |-> SharifeCooper, team |-> <<"A","E","K">>, height_cm |-> 196] >>,
      << [name |-> CooperSharife, team |-> <<"A","E","K">>, height_cm |-> 180] >>,
      << [name |-> FrankBartley, team |-> None, height_cm |-> NoneInt],
         [name |-> SharifeCooper, team |-> <<"A","E","K">>, height_cm |-> 182] >> }

\* esake_boxscores_latest.json: one box score per game; every game lists the
\* same names, and `minutes` tells the rows of one box score apart.
BoxScoreRow(name, k, stat) ==
    [name |-> name, minutes |-> k, points |-> stat.points,
     rebounds |-> stat.rebounds, assists |-> stat.assists]

BoxScoresOf(lineup, games) ==
    [i \in 1..Len(games) |->
        [date |-> games[i].date,
         home_players |-> <<BoxScoreRow(lineup[1], 1, games[i].stat)>>,
         away_players |-> [k \in 1..(Len(lineup) - 1) |->
                              BoxScoreRow(lineup[k + 1], k + 1, games[i].stat)]]]

\* The rows of all box scores in the order the two loops visit them, each
\* with its stripped name and the game entry appended for it.
BoxRows(box_scores) ==
    Flatten([i \in 1..Len(box_scores) |->
        LET box == box_scores[i]
            rows == box.home_players \o box.away_players
        IN  [k \in 1..Len(rows) |->
                [name |-> Strip(rows[k].name),
                 game |-> [date |-> box.date, minutes |-> rows[k].minutes,
                           points |-> rows[k].points,
                           rebounds |-> rows[k].rebounds,
                           assists |-> rows[k].assists]]]])

\* if not name: continue
HasName(row) == Len(row.name) > 0

\* the keys of player_games in insertion order
RECURSIVE FirstSeen(_, _)
FirstSeen(names, seen) ==
    IF Len(names) = 0 THEN seen
    ELSE FirstSeen(Tail(names),
                   IF Head(names) \in Range(seen) THEN seen ELSE Append(seen, Head(names)))

\* player_games after the box score loop and the sort of every list
player_games(box_scores) ==
    LET rows == SelectSeq(BoxRows(box_scores), HasName)
        keys == FirstSeen([i \in 1..Len(rows) |-> rows[i].name], <<>>)
        GamesOf(name) ==
            LET Named(row) == row.name = name
                mine == SelectSeq(rows, Named)
            IN  sort_by_date_desc([i \in 1..Len(mine) |-> mine[i].game])
    IN  [keys |-> keys, games |-> [name \in Range(keys) |-> GamesOf(name)]]

\* boxscores_data = load_json(...); if boxscores_data: ...
LoadedPlayerGames(file) ==
    IF Exists(file) THEN player_games(Content(file)) ELSE player_games(<<>>)

MappingsFor(player_name) ==
    LET Mapped(entry) == entry[1] = player_name
        found == SelectSeq(AMERICAN_PLAYER_MAPPINGS, Mapped)
    IN  IF Len(found) = 0 THEN <<>> ELSE found[1][2]

PresentPatterns(player_name, keys) ==
    LET Present(pattern) == pattern \in Range(keys)
    IN  SelectSeq(MappingsFor(player_name), Present)

\* (variant: the last listed pattern that is present)
manual_match_last(player_name, keys) ==
    LET present == PresentPatterns(player_name, keys)
    IN  IF Len(present) = 0 THEN None ELSE present[Len(present)]

\* "First, try manual mapping": the first listed pattern that is a key
manual_match(player_name, keys) ==
    LET present == PresentPatterns(player_name, keys)
    IN  IF Len(present) = 0 THEN None ELSE present[1]

\* (variant: exact name first, then the manual mapping, then fuzzy)
esake_game_log_exact_first(player_name, pg) ==
    IF player_name \in Range(pg.keys) THEN pg.games[player_name]
    ELSE LET manual == manual_match(player_name, pg.keys)
         IN  IF manual # None THEN pg.games[manual]
             ELSE LET matched == match_names(player_name, pg.keys)
                  IN  IF Truthy(matched) THEN pg.games[matched] ELSE <<>>

\* "Get game log for this player": manual mapping, then exact English
\* name, then fuzzy matching; each later rule only `if not game_log`
esake_game_log(player_name, pg) ==
    LET manual == manual_match(player_name, pg.keys)
    IN  IF manual # None THEN pg.games[manual]
        ELSE IF player_name \in Range(pg.keys) THEN pg.games[player_name]
        ELSE LET matched == match_names(player_name, pg.keys)
             IN  IF Truthy(matched) THEN pg.games[matched] ELSE <<>>

esake_unified(player, pg) ==
    LET game_log == esake_game_log(player.name, pg)
        height == esake_height(player.height_cm)
    IN  [name |-> player.name, team |-> player.team,
         height_cm |-> player.height_cm,
         height_feet |-> height[1], height_inches |-> height[2],
         games_played |-> Len(game_log),
         ppg |-> rounded_average(PointsOf(game_log)),
         rpg |-> rounded_average(ReboundsOf(game_log)),
         apg |-> rounded_average(AssistsOf(game_log)),
         game_log |-> game_log]

\* esake_scraper.py main saves the Americans it found
EsakeWritePlayers ==
    /\ league = "esake" /\ runs = 0 /\ ~Exists(files.players)
    /\ \E players \in EsakePlayerFiles :
           WriteFiles([files EXCEPT !.players = FileOf(players)])

\* esake_boxscore_scraper.py saves the box scores it fetched
EsakeBoxscoreScraper ==
    /\ league = "esake" /\ runs = 0 /\ ~Exists(files.boxscores)
    /\ \E lineup \in EsakeLineups, games \in GameLists :
           WriteFiles([files EXCEPT !.boxscores = FileOf(BoxScoresOf(lineup, games))])

EsakeJoin ==
    /\ league = "esake" /\ runs = 0
    /\ IF ~Exists(files.players)
       THEN JoinOutcome("no data", unified)
       ELSE LET players == Content(files.players)
                pg == LoadedPlayerGames(files.boxscores)
            IN  JoinOutcome("saved",
                    sort_by_name([i \in 1..Len(players) |-> esake_unified(players[i], pg)]))

-----------------------------------------------------------------------------
(* LNB join (src/scrapers/lnb/join_data.py main)                           *)

Cooper == <<"C","o","o","p","e","r">>

LnbLineups == { <<SharifeCooper, FrankBartley>>, <<FrankBartley, Cooper>> }

LnbPlayerFiles ==
    { << [name |-> SharifeCooper, team |-> None, height_cm |-> 196] >>,
      << [name |-> SharifeCooper, team |-> None, height_cm |-> 180],
         [name |-> FrankBartley, team |-> None, height_cm |-> NoneInt] >> }

\* name_lower in box_name.lower() or box_name.lower() in name_lower
lnb_partial(player_name, box_name) ==
    \/ Contains(Lower(box_name), Lower(player_name))
    \/ Contains(Lower(player_name), Lower(box_name))

\* exact name first (player_games.get), then the first key in insertion
\* order that contains the name or is contained in it
lnb_game_log(player_name, pg) ==
    IF player_name \in Range(pg.keys) THEN pg.games[player_name]
    ELSE LET Partial(box_name) == lnb_partial(player_name, box_name)
             found == SelectSeq(pg.keys, Partial)
         IN  IF Len(found) = 0 THEN <<>> ELSE pg.games[found[1]]

lnb_unified(player, pg) ==
    LET game_log == lnb_game_log(player.name, pg)
        height == lnb_height(player.height_cm)
    IN  [name |-> player.name, team |-> player.team,
         height_cm |-> player.height_cm,
         height_feet |-> height[1], height_inches |-> height[2],
         games_played |-> Len(game_log),
         ppg |-> rounded_average(PointsOf(game_log)),
         rpg |-> rounded_average(ReboundsOf(game_log)),
         apg |-> rounded_average(AssistsOf(game_log)),
         game_log |-> game_log]

LnbWritePlayers ==
    /\ league = "lnb" /\ runs = 0 /\ ~Exists(files.players)
    /\ \E players \in LnbPlayerFiles :
           WriteFiles([files EXCEPT !.players = FileOf(players)])

\* lnb_boxscore_scraper.py saves the box scores it fetched
LnbBoxscoreScraper ==
    /\ league = "lnb" /\ runs = 0 /\ ~Exists(files.boxscores)
    /\ \E lineup \in LnbLineups, games \in GameLists :
           WriteFiles([files EXCEPT !.boxscores = FileOf(BoxScoresOf(lineup, games))])

LnbJoin ==
    /\ league = "lnb" /\ runs = 0
    /\ IF ~Exists(files.players)
       THEN JoinOutcome("no data", unified)
       ELSE LET players == Content(files.players)
                pg == LoadedPlayerGames(files.boxscores)
            IN  JoinOutcome("saved",
                    sort_by_name([i \in 1..Len(players) |-> lnb_unified(players[i], pg)]))

-----------------------------------------------------------------------------
(* Euroleague: daily_scraper.py, hometown_lookup_fixed.py, join_data.py    *)

UpperChar(c) ==
    IF IsLower(c) THEN UpperLetters[CHOOSE i \in 1..26 : LowerLetters[i] = c] ELSE c

\* str.title() on ASCII text: a letter is upper-cased when the character
\* before it is not a letter, and lower-cased otherwise
Title(s) ==
    [i \in 1..Len(s) |->
        IF i = 1 THEN UpperChar(s[i])
        ELSE IF IsLetter(s[i - 1]) THEN LowerChar(s[i]) ELSE UpperChar(s[i])]

\* if ', ' in name: parts = name.split(', ', 1);
\*                  name = f"{parts[1]} {parts[0]}".title()
euroleague_clean_name(name) ==
    LET sep == <<",", " ">>
    IN  IF Contains(name, sep)
        THEN LET at == CHOOSE i \in 1..Len(name) :
                           /\ SubSeq(name, i, i + 1) = sep
                           /\ \A j \in 1..(i - 1) : SubSeq(name, j, j + 1) # sep
             IN  Title(SubSeq(name, at + 2, Len(name)) \o <<" ">> \o SubSeq(name, 1, at - 1))
        ELSE name

PlayerCode == <<"P","1">>
EuroleaguePlayer ==
    [code |-> PlayerCode,
     name |-> <<"C","O","O","P","E","R",",", " ","S","H","A","R","I","F","E">>,
     team_name |-> <<"A","E","K">>, height |-> 196]

\* a second American of the roster, who is in no box score
BenchCode == <<"P","2">>
BenchPlayer ==
    [code |-> BenchCode, name |-> <<"B","E","N","C","H",","," ","A","L">>,
     team_name |-> <<"A","E","K">>, height |-> NoneInt]
EuroleaguePlayers == <<EuroleaguePlayer, BenchPlayer>>

\* extract_american_performances: one performance per game of the player
PerformancesOf(games) ==
    [i \in 1..Len(games) |->
        [player_code |-> PlayerCode, date |-> games[i].date, minutes |-> i,
         points |-> games[i].stat.points, rebounds |-> games[i].stat.rebounds,
         assists |-> games[i].stat.assists]]

\* "Step 5: Process American Player Statistics": totals per player code,
\* the averages rounded to one decimal, sorted by ppg
euroleague_player_stats(performances) ==
    LET codes == FirstSeen([i \in 1..Len(performances) |-> performances[i].player_code], <<>>)
        StatsOf(code) ==
            LET Mine(perf) == perf.player_code = code
                mine == SelectSeq(performances, Mine)
                gp == Len(mine)
            IN  [player_code |-> code, games_played |-> gp,
                 total_points |-> SumSeq(PointsOf(mine)),
                 total_rebounds |-> SumSeq(ReboundsOf(mine)),
                 total_assists |-> SumSeq(AssistsOf(mine)),
                 ppg |-> round_tenths(SumSeq(PointsOf(mine)), gp),
                 rpg |-> round_tenths(SumSeq(ReboundsOf(mine)), gp),
                 apg |-> round_tenths(SumSeq(AssistsOf(mine)), gp)]
    IN  sort_by_ppg_desc([i \in 1..Len(codes) |-> StatsOf(codes[i])])

\* One run of the daily scraper: the players file is always written, the
\* performances and the season stats only `if all_american_performances`.
EuroleagueDailyScraper ==
    /\ league = "euroleague" /\ runs = 0 /\ ~Exists(files.players)
    /\ \E games \in GameLists :
           LET performances == PerformancesOf(games)
           IN  WriteFiles([files EXCEPT
                   !.players = FileOf(EuroleaguePlayers),
                   !.performances = IF Len(performances) > 0
                                    THEN FileOf(performances) ELSE @,
                   !.stats = IF Len(performances) > 0
                             THEN FileOf(euroleague_player_stats(performances)) ELSE @])

\* american_hometowns_found_*.json: the records of the successful lookups
HometownsFound(code, city, state) ==
    <<[code |-> code, hometown_city |-> city, hometown_state |-> state]>>

\* hometown_lookup_fixed.py main: needs the players file, saves what it found
EuroleagueHometownLookup ==
    /\ league = "euroleague" /\ runs = 0
    /\ Exists(files.players) /\ ~Exists(files.hometowns)
    /\ \/ WriteFiles([files EXCEPT !.hometowns = FileOf(<<>>)])
       \/ \E city \in HometownCities, state \in HometownStates :
              WriteFiles([files EXCEPT
                  !.hometowns = FileOf(HometownsFound(PlayerCode, city, state))])

\* lookup.get(code, {}) on a dict filled in list order `if code:`
NoHometown == [hometown_city |-> None, hometown_state |-> None]
hometown_lookup(file, code) ==
    LET records == IF Exists(file) THEN Content(file) ELSE <<>>
        Mine(record) == Truthy(record.code) /\ record.code = code
        found == SelectSeq(records, Mine)
    IN  IF Len(found) = 0 THEN NoHometown
        ELSE [hometown_city |-> found[Len(found)].hometown_city,
              hometown_state |-> found[Len(found)].hometown_state]

\* perf_lookup.get(code, []): the game records built from the performances
euroleague_games(file, code) ==
    LET performances == IF Exists(file) THEN Content(file) ELSE <<>>
        Mine(perf) == Truthy(perf.player_code) /\ perf.player_code = code
        mine == SelectSeq(performances, Mine)
    IN  [i \in 1..Len(mine) |->
            [date |-> mine[i].date, minutes |-> mine[i].minutes,
             points |-> mine[i].points, rebounds |-> mine[i].rebounds,
             assists |-> mine[i].assists]]

\* stats_lookup.get(code, {}) and the defaults of stats.get(...)
euroleague_stats(file, code, games) ==
    LET records == IF Exists(file) THEN Content(file) ELSE <<>>
        Mine(record) == Truthy(record.player_code) /\ record.player_code = code
        found == SelectSeq(records, Mine)
    IN  IF Len(found) = 0
        THEN [games_played |-> Len(games), ppg |-> 0, rpg |-> 0, apg |-> 0]
        ELSE [games_played |-> found[Len(found)].games_played,
              ppg |-> found[Len(found)].ppg, rpg |-> found[Len(found)].rpg,
              apg |-> found[Len(found)].apg]

euroleague_unified(player, fs) ==
    LET hometown == hometown_lookup(fs.hometowns, player.code)
        unsorted == euroleague_games(fs.performances, player.code)
        stats == euroleague_stats(fs.stats, player.code, unsorted)
        games == sort_by_date_desc(unsorted)
        height == euroleague_cm_to_feet_inches(player.height)
    IN  [code |-> player.code, name |-> euroleague_clean_name(player.name),
         team |-> player.team_name,
         height_cm |-> player.height,
         height_feet |-> height[1], height_inches |-> height[2],
         hometown_city |-> hometown.hometown_city,
         hometown_state |-> hometown.hometown_state,
         hometown |-> hometown_string(hometown.hometown_city, hometown.hometown_state),
         games_played |-> stats.games_played,
         ppg |-> stats.ppg, rpg |-> stats.rpg, apg |-> stats.apg,
         recent_games |-> Prefix(games, 5), all_games |-> games]

\* join_data.py main: sorted(games, key=lambda x: x.get('date', ''),
\* reverse=True) raises on a null date, and then nothing is saved
EuroleagueJoin ==
    /\ league = "euroleague" /\ runs = 0
    /\ IF ~Exists(files.players)
       THEN JoinOutcome("no data", unified)
       ELSE LET players == Content(files.players)
            IN  IF \E i \in 1..Len(players) :
                       sort_by_date_raises(
                           euroleague_games(files.performances, players[i].code))
                THEN JoinOutcome("TypeError", unified)
                ELSE JoinOutcome("saved",
                         sort_by_ppg_desc([i \in 1..Len(players) |->
                                              euroleague_unified(players[i], files)]))

-----------------------------------------------------------------------------
(* Schedules of the BSL and LBA joins                                      *)

TeamName == <<"E","f","e","s">>
OpponentName == <<"R","i","v","a","l">>
TsdbCode == <<"T","1">>

\* the games of a schedule file: the player's team at home, all played
ScheduleOf(games) ==
    [i \in 1..Len(games) |->
        [date |-> games[i].date, home_team |-> TeamName,
         away_team |-> OpponentName, played |-> TRUE]]

ScheduleGames(file) == IF Exists(file) THEN Content(file) ELSE <<>>

\* past_by_team[team] / upcoming_by_team[team] before the sort: an entry
\* per game the team is the home or the away side of, in file order
team_games(schedule, team, played) ==
    LET Mine(game) ==
            /\ game.played = played
            /\ (Truthy(game.home_team) /\ game.home_team = team)
               \/ (Truthy(game.away_team) /\ game.away_team = team)
        mine == SelectSeq(schedule, Mine)
    IN  [i \in 1..Len(mine) |->
            [date |-> mine[i].date,
             opponent |-> IF mine[i].home_team = team
                          THEN mine[i].away_team ELSE mine[i].home_team,
             home_away |-> IF mine[i].home_team = team THEN "Home" ELSE "Away",
             played |-> mine[i].played]]

TeamsOf(schedule) ==
    {schedule[i].home_team : i \in 1..Len(schedule)}
        \cup {schedule[i].away_team : i \in 1..Len(schedule)}

\* the keys of past_by_team / upcoming_by_team in insertion order: per game
\* of the bucket, the home team and then the away team, `if home_team:`
team_keys(schedule, played) ==
    LET Mine(game) == game.played = played
        mine == SelectSeq(schedule, Mine)
        sides == Flatten([i \in 1..Len(mine) |-> <<mine[i].home_team, mine[i].away_team>>])
    IN  FirstSeen(SelectSeq(sides, Truthy), <<>>)

\* BSL join: TheSportsDB team name -> TBLStat team name, in listed order
TEAM_NAME_MAP ==
    << <<<<"A","n","a","d","o","l","u"," ","E","f","e","s"," ","S","K">>,
         <<"A","n","a","d","o","l","u"," ","E","f","e","s">>>>,
       <<<<"B","a","h","c-cedilla","e","s-cedilla","e","h","i","r"," ","K","o","l","e","j","i"," ","S","K">>,
         <<"B","a","h","c-cedilla","e","s-cedilla","e","h","i","r"," ","K","o","l","e","j","i">>>>,
       <<<<"B","e","s","i","k","t","a","s"," ","B","a","s","k","e","t","b","o","l">>,
         <<"B","e","s-cedilla","i","k","t","a","s-cedilla"," ","G","A","I-dotted","N">>>>,
       <<<<"B","u-diaeresis","y","u-diaeresis","k","c-cedilla","e","k","m","e","c","e"," ","B","a","s","k","e","t","b","o","l">>,
         <<"O","N","V","O"," ","B","u-diaeresis","y","u-diaeresis","k","c-cedilla","e","k","m","e","c","e">>>>,
       <<<<"F","e","n","e","r","b","a","h","c-cedilla","e"," ","B","a","s","k","e","t","b","o","l">>,
         <<"F","e","n","e","r","b","a","h","c-cedilla","e"," ","B","e","k","o">>>>,
       <<<<"B","u","r","s","a","s","p","o","r"," ","B","a","s","k","e","t","b","o","l">>,
         <<"B","u","r","s","a","s","p","o","r"," ","B","a","s","k","e","t","b","o","l">>>> >>

\* BSL join: past_by_team.get(team_name, []) and upcoming_by_team.get(...);
\* `if not past_games and not upcoming_games`, the first TEAM_NAME_MAP entry
\* whose TBLStat name equals team_name gives the key to look up instead
bsl_team_games(schedule, team_name) ==
    LET Past(team) == sort_by_date_desc(team_games(schedule, team, TRUE))
        Upcoming(team) == sort_by_date(team_games(schedule, team, FALSE))
        Reverse(entry) == entry[2] = team_name
        mapped == SelectSeq(TEAM_NAME_MAP, Reverse)
    IN  IF Len(Past(team_name)) = 0 /\ Len(Upcoming(team_name)) = 0 /\ Len(mapped) > 0
        THEN [past_games |-> Past(mapped[1][1]), upcoming_games |-> Upcoming(mapped[1][1])]
        ELSE [past_games |-> Past(team_name), upcoming_games |-> Upcoming(team_name)]

\* LBA join: both lists by the exact team name; `if not upcoming_games and
\* team_name`, the first key of upcoming_by_team that contains the team name
\* or is contained in it gives the upcoming games; the past games have no
\* such second lookup
lba_team_games(schedule, team_name) ==
    LET Past(team) == sort_by_date_desc(team_games(schedule, team, TRUE))
        Upcoming(team) == sort_by_date(team_games(schedule, team, FALSE))
        Similar(team_key) == Contains(team_key, team_name) \/ Contains(team_name, team_key)
        similar == SelectSeq(team_keys(schedule, FALSE), Similar)
    IN  [past_games |-> Past(team_name),
         upcoming_games |->
             IF Len(Upcoming(team_name)) = 0 /\ Truthy(team_name) /\ Len(similar) > 0
             THEN Upcoming(similar[1])
             ELSE Upcoming(team_name)]

\* TheSportsDB players: american_players_*.json
TsdbPlayers ==
    <<[name |-> SharifeCooper, code |-> TsdbCode, team_name |-> TeamName,
       height_str |-> <<"1","9","6"," ","c","m">>]>>

\* tsdb_lookup.get(norm_name, {}): the last player with that normalized name
tsdb_lookup(file, norm_name) ==
    LET records == IF Exists(file) THEN Content(file) ELSE <<>>
        Mine(record) == lba_normalize_name(record.name) = norm_name
        found == SelectSeq(records, Mine)
    IN  IF Len(found) = 0
        THEN [code |-> None, team_name |-> None, height_str |-> None]
        ELSE [code |-> GetOr(found[Len(found)], "code", None),
              team_name |-> GetOr(found[Len(found)], "team_name", None),
              height_str |-> GetOr(found[Len(found)], "height_str", None)]

-----------------------------------------------------------------------------
(* BSL join (src/scrapers/bsl/join_data.py main)                           *)

\* bsl_american_stats_latest.json and bsl_schedule_latest.json come from
\* bsl_scraper.py: the player's averages are the rounded means of the game
\* log given with them, and the game log is sorted most recent first.
BslStatsOf(games) ==
    LET game_log == sort_by_date_desc(
                        [i \in 1..Len(games) |->
                            [date |-> games[i].date, minutes |-> i,
                             points |-> games[i].stat.points,
                             rebounds |-> games[i].stat.rebounds,
                             assists |-> games[i].stat.assists]])
    IN  <<[name |-> SharifeCooper, team |-> TeamName, games |-> Len(game_log),
           ppg |-> rounded_average(PointsOf(game_log)),
           rpg |-> rounded_average(ReboundsOf(game_log)),
           apg |-> rounded_average(AssistsOf(game_log)),
           game_log |-> game_log]>>

BslScraper ==
    /\ league = "bsl" /\ runs = 0 /\ ~Exists(files.stats)
    /\ \E games \in GameLists :
           WriteFiles([files EXCEPT !.stats = FileOf(BslStatsOf(games)),
                                    !.schedule = FileOf(ScheduleOf(games))])

\* the TheSportsDB players and the hometowns found for them
BslEnrichment ==
    /\ league = "bsl" /\ runs = 0 /\ ~Exists(files.tsdb)
    /\ \/ WriteFiles([files EXCEPT !.tsdb = FileOf(TsdbPlayers)])
       \/ \E city \in HometownCities, state \in HometownStates :
              WriteFiles([files EXCEPT
                  !.tsdb = FileOf(TsdbPlayers),
                  !.hometowns = FileOf(HometownsFound(TsdbCode, city, state))])

\* name_norm = NFKD -> ASCII, lower(), strip()
bsl_name_norm(name) == Strip(Lower(NfkdAscii(name)))

bsl_unified(bsl_player, fs) ==
    LET tsdb_player == tsdb_lookup(fs.tsdb, bsl_name_norm(bsl_player.name))
        hometown == hometown_lookup(fs.hometowns, tsdb_player.code)
        schedule == ScheduleGames(fs.schedule)
    IN  [code |-> tsdb_player.code, name |-> bsl_player.name,
         team |-> bsl_player.team,
         hometown_city |-> hometown.hometown_city,
         hometown_state |-> hometown.hometown_state,
         hometown |-> hometown_string(hometown.hometown_city, hometown.hometown_state),
         games_played |-> bsl_player.games,
         ppg |-> bsl_player.ppg, rpg |-> bsl_player.rpg, apg |-> bsl_player.apg,
         game_log |-> bsl_player.game_log,
         past_games |-> bsl_team_games(schedule, bsl_player.team).past_games,
         upcoming_games |-> bsl_team_games(schedule, bsl_player.team).upcoming_games]

\* past_by_team[team].sort(key=lambda x: x.get('date', ''), reverse=True)
\* and the upcoming lists likewise: a null date raises TypeError
BslJoin ==
    /\ league = "bsl" /\ runs = 0
    /\ LET bsl_players == IF Exists(files.stats) THEN Content(files.stats) ELSE <<>>
           schedule == ScheduleGames(files.schedule)
       IN  IF Len(bsl_players) = 0
           THEN JoinOutcome("no data", unified)
           ELSE IF \E team \in TeamsOf(schedule), played \in BOOLEAN :
                       sort_by_date_raises(team_games(schedule, team, played))
                THEN JoinOutcome("TypeError", unified)
                ELSE JoinOutcome("saved",
                         sort_by_name([i \in 1..Len(bsl_players) |->
                                          bsl_unified(bsl_players[i], files)]))

-----------------------------------------------------------------------------
(* LBA: lba_scraper.py main and join_data.py main                          *)

\* full_name = f"{first_name} {surname}".title()
LbaRowName == Title(<<"S","H","A","R","I","F","E"," ","C","O","O","P","E","R">>)

\* build_player_game_logs and "Build American player stats": a game log per
\* TheSportsDB player whose normalized name the box scores list, and the
\* averages computed from it
lba_american_stats(games, american_lookup) ==
    [p \in 1..Len(american_lookup) |->
        LET norm_name == lba_scraper_normalize_name(american_lookup[p].name)
            Listed(i) == lba_scraper_normalize_name(LbaRowName) = norm_name
            rows == SelectSeq([i \in 1..Len(games) |-> i], Listed)
            game_log == sort_by_date_desc(
                            [k \in 1..Len(rows) |->
                                [date |-> games[rows[k]].date, minutes |-> rows[k],
                                 points |-> games[rows[k]].stat.points,
                                 rebounds |-> games[rows[k]].stat.rebounds,
                                 assists |-> games[rows[k]].stat.assists]])
        IN  [name |-> american_lookup[p].name,
             player_code |-> american_lookup[p].code,
             team |-> american_lookup[p].team_name,
             games |-> Len(game_log),
             ppg |-> rounded_average(PointsOf(game_log)),
             rpg |-> rounded_average(ReboundsOf(game_log)),
             apg |-> rounded_average(AssistsOf(game_log)),
             game_log |-> game_log]]

\* lba_scraper.py main: `game.get('date', '') > today` raises TypeError on
\* a null date before anything is saved
LbaScraper ==
    /\ league = "lba" /\ runs = 0 /\ ~Exists(files.stats)
    /\ \E fetched \in GameLists :
           LET games == sort_by_date(fetched)
               american_lookup == IF Exists(files.tsdb) THEN Content(files.tsdb) ELSE <<>>
           IN  IF \E i \in 1..Len(games) : games[i].date = None
               THEN WriteFiles(files)
               ELSE WriteFiles([files EXCEPT
                        !.schedule = FileOf(ScheduleOf(games)),
                        !.stats = FileOf(lba_american_stats(games, american_lookup))])

LbaEnrichment ==
    /\ league = "lba" /\ runs = 0 /\ ~Exists(files.tsdb)
    /\ \/ WriteFiles([files EXCEPT !.tsdb = FileOf(TsdbPlayers)])
       \/ \E city \in HometownCities, state \in HometownStates :
              WriteFiles([files EXCEPT
                  !.tsdb = FileOf(TsdbPlayers),
                  !.hometowns = FileOf(HometownsFound(TsdbCode, city, state))])

\* a record of the primary list: an LBA stats player, or a TheSportsDB
\* player when the join falls back to that list
LbaPrimary(record) ==
    [name |-> GetOr(record, "name", <<>>),
     player_code |-> GetOr(record, "player_code", None),
     team |-> GetOr(record, "team", None),
     games |-> GetOr(record, "games", 0),
     ppg |-> GetOr(record, "ppg", 0), rpg |-> GetOr(record, "rpg", 0),
     apg |-> GetOr(record, "apg", 0),
     game_log |-> GetOr(record, "game_log", <<>>)]

lba_unified(player, fs) ==
    LET tsdb_player == tsdb_lookup(fs.tsdb, lba_normalize_name(player.name))
        code == IF Truthy(player.player_code) THEN player.player_code
                ELSE tsdb_player.code
        hometown == hometown_lookup(fs.hometowns, code)
        team_name == IF Truthy(player.team) THEN player.team ELSE tsdb_player.team_name
        schedule == ScheduleGames(fs.schedule)
        height == lba_cm_to_feet_inches(tsdb_player.height_str)
    IN  [code |-> code, name |-> player.name, team |-> team_name,
         height_cm |-> NoneInt,
         height_feet |-> height[1], height_inches |-> height[2],
         hometown_city |-> hometown.hometown_city,
         hometown_state |-> hometown.hometown_state,
         hometown |-> hometown_string(hometown.hometown_city, hometown.hometown_state),
         games_played |-> IF player.games # 0 THEN player.games ELSE Len(player.game_log),
         ppg |-> player.ppg, rpg |-> player.rpg, apg |-> player.apg,
         game_log |-> player.game_log,
         past_games |-> lba_team_games(schedule, team_name).past_games,
         upcoming_games |-> lba_team_games(schedule, team_name).upcoming_games]

LbaJoin ==
    /\ league = "lba" /\ runs = 0
    /\ LET lba_players == IF Exists(files.stats) THEN Content(files.stats) ELSE <<>>
           primary == IF Len(lba_players) > 0 THEN lba_players
                      ELSE IF Exists(files.tsdb) THEN Content(files.tsdb) ELSE <<>>
       IN  IF Len(lba_players) = 0 /\ ~Exists(files.tsdb)
           THEN JoinOutcome("no data", unified)
           ELSE JoinOutcome("saved",
                    sort_by_name([i \in 1..Len(primary) |->
                                     lba_unified(LbaPrimary(primary[i]), files)]))

-----------------------------------------------------------------------------
(* The pipeline of one league directory: the sources are written, then the *)
(* league's join runs                                                      *)

Leagues == {"esake", "lnb", "euroleague", "bsl", "lba"}

Init ==
    /\ fn = "pipeline" /\ arg = <<>> /\ ret = <<>>
    /\ league \in Leagues
    /\ files = NoFiles
    /\ unified = <<>>
    /\ runs = 0

Next ==
    \/ EsakeWritePlayers
    \/ EsakeBoxscoreScraper
    \/ EsakeJoin
    \/ LnbWritePlayers
    \/ LnbBoxscoreScraper
    \/ LnbJoin
    \/ EuroleagueDailyScraper
    \/ EuroleagueHometownLookup
    \/ EuroleagueJoin
    \/ BslScraper
    \/ BslEnrichment
    \/ BslJoin
    \/ LbaScraper
    \/ LbaEnrichment
    \/ LbaJoin

Spec == Init /\ [][Next]_vars

-----------------------------------------------------------------------------
(* The team schedule lookups of the BSL and LBA joins, called on their own *)

MaxSchedule == 2

Brescia == <<"B","r","e","s","c","i","a">>
GermaniBrescia == <<"G","e","r","m","a","n","i"," ","B","r","e","s","c","i","a">>
\* a TBLStat team name of TEAM_NAME_MAP and the TheSportsDB name listed for it
AnadoluEfes == <<"A","n","a","d","o","l","u"," ","E","f","e","s">>
AnadoluEfesSK == <<"A","n","a","d","o","l","u"," ","E","f","e","s"," ","S","K">>
LookupTeams == {Brescia, GermaniBrescia, AnadoluEfes, AnadoluEfesSK}

\* the games of a schedule file: a played game of an earlier day or a game
\* still to come, one of the teams at home
LookupGames ==
    { [date |-> IF played THEN Date1 ELSE Date2, home_team |-> team,
       away_team |-> OpponentName, played |-> played] :
      team \in LookupTeams, played \in BOOLEAN }

InitLookups ==
    /\ league = "none" /\ files = NoFiles /\ unified = <<>> /\ runs = 0
    /\ ret = <<>>
    /\ fn \in {"bsl_team_games", "lba_team_games"}
    /\ arg \in [schedule : SeqsUpTo(LookupGames, MaxSchedule),
                team_name : {None} \cup LookupTeams]

CallBslTeamGames ==
    /\ fn = "bsl_team_games" /\ ret = <<>>
    /\ Returned(bsl_team_games(arg.schedule, arg.team_name))

CallLbaTeamGames ==
    /\ fn = "lba_team_games" /\ ret = <<>>
    /\ Returned(lba_team_games(arg.schedule, arg.team_name))

NextLookups ==
    \/ CallBslTeamGames
    \/ CallLbaTeamGames

SpecLookups == InitLookups /\ [][NextLookups]_vars

-----------------------------------------------------------------------------
(* The output/json directory of a league: file names, globs and loaders    *)

\* the runs of scripts that the directory is followed through
MaxRuns == 3

\* datetime.now().strftime('%Y%m%d_%H%M%S') of the n-th run: later runs have
\* later stamps
StampOf(n) == <<"2","0","2","6","0","1","0">> \o DigitsOf(n) \o <<"_","0","0","0","0","0","0">>
DotJson == <<".","j","s","o","n">>
\* f'{prefix}_{timestamp}.json' and f'{prefix}_latest.json'
Stamped(prefix, n) == prefix \o <<"_">> \o StampOf(n) \o DotJson
Latest(prefix) == prefix \o <<"_","l","a","t","e","s","t">> \o DotJson

\* the prefixes of the files the scripts save
clubs_ == <<"c","l","u","b","s">>
players_ == <<"p","l","a","y","e","r","s">>
american_players_ == <<"a","m","e","r","i","c","a","n","_","p","l","a","y","e","r","s">>
schedule_ == <<"s","c","h","e","d","u","l","e">>
lba_schedule_ == <<"l","b","a","_","s","c","h","e","d","u","l","e">>
lba_american_stats_ == <<"l","b","a","_","a","m","e","r","i","c","a","n","_","s","t","a","t","s">>
unified_american_players_ == <<"u","n","i","f","i","e","d","_","a","m","e","r","i","c","a","n","_","p","l","a","y","e","r","s">>
american_players_summary_ == <<"a","m","e","r","i","c","a","n","_","p","l","a","y","e","r","s","_","s","u","m","m","a","r","y">>
american_hometowns_ == <<"a","m","e","r","i","c","a","n","_","h","o","m","e","t","o","w","n","s">>
american_hometowns_found_ == <<"a","m","e","r","i","c","a","n","_","h","o","m","e","t","o","w","n","s","_","f","o","u","n","d">>
american_performances_ == <<"a","m","e","r","i","c","a","n","_","p","e","r","f","o","r","m","a","n","c","e","s">>
american_player_stats_ == <<"a","m","e","r","i","c","a","n","_","p","l","a","y","e","r","_","s","t","a","t","s">>
game_recaps_ == <<"g","a","m","e","_","r","e","c","a","p","s">>
esake_american_stats_ == <<"e","s","a","k","e","_","a","m","e","r","i","c","a","n","_","s","t","a","t","s">>
esake_schedule_ == <<"e","s","a","k","e","_","s","c","h","e","d","u","l","e">>
esake_games_ == <<"e","s","a","k","e","_","g","a","m","e","s">>
esake_boxscores_ == <<"e","s","a","k","e","_","b","o","x","s","c","o","r","e","s">>
bbl_all_stats_ == <<"b","b","l","_","a","l","l","_","s","t","a","t","s">>
bbl_american_stats_ == <<"b","b","l","_","a","m","e","r","i","c","a","n","_","s","t","a","t","s">>
bbl_hometowns_ == <<"b","b","l","_","h","o","m","e","t","o","w","n","s">>

\* the directory maps the name of each file in it to what the file holds:
\* the dataset and the run that saved it, whether it parses as JSON, and the
\* records of its list
EmptyDir == [name \in {} |-> <<>>]

\* save_json(data, filename): json.dump into open(filepath, 'w')
save_json(dir, filename, dataset, n, records) ==
    [name \in DOMAIN dir \cup {filename} |->
        IF name = filename
        THEN [dataset |-> dataset, stamp |-> n, valid |-> TRUE, records |-> records]
        ELSE dir[name]]

\* glob(os.path.join(output_dir, pattern)) for a pattern with one `*`,
\* given as the text before and after it
glob(dir, pattern) ==
    {name \in DOMAIN dir :
        /\ Len(name) >= Len(pattern[1]) + Len(pattern[2])
        /\ StartsWith(name, pattern[1])
        /\ EndsWith(name, pattern[2])}

\* sorted(names)[-1] and sorted(names)[0]
LastName(names) == CHOOSE name \in names : \A other \in names \ {name} : StrLess(other, name)
FirstName(names) == CHOOSE name \in names : \A other \in names \ {name} : StrLess(name, other)

\* what a loader call gives the join: the file it chose, the parsed list,
\* whether it logged a warning and whether it raised
LoadResult(name, data, warned, raised) ==
    [name |-> name, data |-> data, warned |-> warned, raised |-> raised]
NothingLoaded(warned) == LoadResult(None, NoFile, warned, FALSE)
Parsed(dir, name) == LoadResult(name, FileOf(dir[name].records), FALSE, FALSE)
\* json.load outside any try: JSONDecodeError leaves the loader
ParsedOrRaised(dir, name) ==
    IF dir[name].valid THEN Parsed(dir, name) ELSE LoadResult(name, NoFile, FALSE, TRUE)

\* lba/join_data.py and bsl/join_data.py load_latest_json
load_latest_json(dir, pattern) ==
    IF glob(dir, pattern) = {} THEN NothingLoaded(TRUE)
    ELSE ParsedOrRaised(dir, LastName(glob(dir, pattern)))

\* euroleague/join_data.py load_latest_json: `if not files: return None`
euroleague_load_latest_json(dir, pattern) ==
    IF glob(dir, pattern) = {} THEN NothingLoaded(FALSE)
    ELSE ParsedOrRaised(dir, LastName(glob(dir, pattern)))

\* esake/join_data.py load_json
load_json(dir, filename) ==
    IF filename \notin DOMAIN dir THEN NothingLoaded(TRUE)
    ELSE ParsedOrRaised(dir, filename)

\* `if os.path.exists(latest_file): try: ... except Exception: warning`
\* of load_lba_stats, load_lba_schedule and load_best_schedule
load_guarded(dir, filename) ==
    IF filename \in DOMAIN dir /\ dir[filename].valid
    THEN Parsed(dir, filename)
    ELSE NothingLoaded(filename \in DOMAIN dir)

\* load_best_schedule: schedule_latest.json, else of the sorted
\* schedule_*.json the first file with the most games (`game_count >
\* best_count` from best_count = 0)
load_best_schedule(dir) ==
    LET latest == load_guarded(dir, Latest(schedule_))
        names == glob(dir, <<schedule_ \o <<"_">>, DotJson>>)
        readable == {name \in names : dir[name].valid}
        Count(name) == Len(dir[name].records)
        most == {name \in readable :
                    Count(name) > 0 /\ \A other \in readable : Count(other) <= Count(name)}
        warned == latest.warned \/ names = {} \/ readable # names
    IN  IF latest.name # None THEN latest
        ELSE IF most = {} THEN NothingLoaded(warned)
        ELSE LoadResult(FirstName(most), FileOf(dir[FirstName(most)].records), warned, FALSE)

\* load_lba_stats: lba_american_stats_latest.json, "No LBA stats found"
\* logged whenever nothing was returned
load_lba_stats(dir) ==
    LET latest == load_guarded(dir, Latest(lba_american_stats_))
    IN  IF latest.name # None THEN latest ELSE NothingLoaded(TRUE)

\* load_lba_schedule: lba_schedule_latest.json, else load_best_schedule
load_lba_schedule(dir) ==
    LET latest == load_guarded(dir, Latest(lba_schedule_))
        best == load_best_schedule(dir)
    IN  IF latest.name # None THEN latest
        ELSE LoadResult(best.name, best.data, latest.warned \/ best.warned, FALSE)

\* one save_json call after the other
RECURSIVE SaveAll(_, _, _)
SaveAll(dir, n, writes) ==
    IF writes = <<>> THEN dir
    ELSE SaveAll(save_json(dir, Head(writes)[1], Head(writes)[2], n, Head(writes)[3]),
                 n, Tail(writes))

\* the saves of a run; a run that is killed during its last save leaves
\* that file cut short, which json.load rejects
Saves(dir, n, writes, interrupted) ==
    IF interrupted /\ writes # <<>>
    THEN [SaveAll(dir, n, writes) EXCEPT ![writes[Len(writes)][1]].valid = FALSE]
    ELSE SaveAll(dir, n, writes)
Ended(interrupted) == IF interrupted THEN "killed" ELSE "saved"

\* f'{prefix}_latest.json' saved without the stamped file
LatestFile(prefix, n, records) ==
    << <<Latest(prefix), prefix, records>> >>

\* f'{prefix}_{timestamp}.json' and then f'{prefix}_latest.json' with the
\* same data
BothFiles(prefix, n, records) ==
    << <<Stamped(prefix, n), prefix, records>>, <<Latest(prefix), prefix, records>> >>
StampedFile(prefix, n, records) == << <<Stamped(prefix, n), prefix, records>> >>

\* what a run of a script leaves: the directory, how the run ended, and for
\* a join what its loader calls returned
Ran(dir, outcome, loads) == [dir |-> dir, outcome |-> outcome, loads |-> loads]

\* the season as the sites give it: two games, both played
SeasonGames ==
    << [date |-> Date1, stat |-> ScoringGame], [date |-> Date2, stat |-> QuietGame] >>
\* the games a scrape gets: each game page is fetched on its own, and a
\* failed fetch leaves the game out
FetchedGames == { <<SeasonGames[1]>>, SeasonGames }

-----------------------------------------------------------------------------
(* The LBA directory: daily_scraper.py, lba_scraper.py and join_data.py    *)

\* lba/daily_scraper.py main: the clubs file only `if clubs`, the players
\* of the clubs that were fetched, the schedule
lba_daily_scraper(dir, n, clubs_fetched, games, interrupted) ==
    LET players == IF clubs_fetched THEN TsdbPlayers ELSE <<>>
        clubs == IF clubs_fetched THEN StampedFile(clubs_, n, <<TeamName>>) ELSE <<>>
    IN  Ran(Saves(dir, n,
                clubs \o StampedFile(players_, n, players)
                      \o BothFiles(american_players_, n, players)
                      \o BothFiles(schedule_, n, ScheduleOf(sort_by_date(games))),
                interrupted),
            Ended(interrupted), <<>>)

\* lba_scraper.py main: the Americans come from american_players_latest.json
lba_scraper(dir, n, fetched, interrupted) ==
    LET american_lookup == load_guarded(dir, Latest(american_players_)).data
        games == sort_by_date(fetched)
        lookup == IF Exists(american_lookup) THEN Content(american_lookup) ELSE <<>>
    IN  Ran(Saves(dir, n,
                BothFiles(lba_schedule_, n, ScheduleOf(games))
                    \o BothFiles(lba_american_stats_, n, lba_american_stats(games, lookup)),
                interrupted),
            Ended(interrupted), <<>>)

\* "Save Summary Version": the fields copied from the unified records
lba_summary(p) ==
    [code |-> p.code, name |-> p.name, team |-> p.team,
     height_feet |-> p.height_feet, height_inches |-> p.height_inches,
     hometown |-> p.hometown, hometown_state |-> p.hometown_state,
     games_played |-> p.games_played, ppg |-> p.ppg, rpg |-> p.rpg, apg |-> p.apg]

\* the loader calls of lba/join_data.py main, in the order it makes them
lba_loads(dir) ==
    [stats |-> load_lba_stats(dir),
     players |-> load_latest_json(dir, <<american_players_ \o <<"_">>, DotJson>>),
     hometowns |-> load_latest_json(dir, <<american_hometowns_found_ \o <<"_">>, DotJson>>),
     schedule |-> load_lba_schedule(dir)]

\* lba/join_data.py main, from the loaded sources on: the primary list is
\* the LBA stats, or the TheSportsDB players when there are none
lba_primary(loads) ==
    IF Exists(loads.stats.data) /\ Len(Content(loads.stats.data)) > 0
    THEN Content(loads.stats.data)
    ELSE IF Exists(loads.players.data) THEN Content(loads.players.data)
    ELSE <<>>

lba_sources(loads) ==
    [NoFiles EXCEPT !.tsdb = loads.players.data,
                    !.hometowns = loads.hometowns.data,
                    !.schedule = loads.schedule.data]

lba_unified_players(primary, fs) ==
    sort_by_name([i \in 1..Len(primary) |-> lba_unified(LbaPrimary(primary[i]), fs)])

lba_save(dir, n, loads, unified_players) ==
    Ran(SaveAll(dir, n,
            BothFiles(unified_american_players_, n, unified_players)
                \o BothFiles(american_players_summary_, n,
                             [i \in 1..Len(unified_players) |->
                                 lba_summary(unified_players[i])])),
        "saved", loads)

lba_join_loaded(dir, n, loads) ==
    IF loads.players.raised \/ loads.hometowns.raised
    THEN Ran(dir, "JSONDecodeError", loads)
    ELSE IF lba_primary(loads) = <<>> /\ ~Exists(loads.players.data)
    THEN Ran(dir, "no data", loads)
    ELSE lba_save(dir, n, loads,
                  lba_unified_players(lba_primary(loads), lba_sources(loads)))

lba_join(dir, n) == lba_join_loaded(dir, n, lba_loads(dir))

-----------------------------------------------------------------------------
(* The Euroleague directory: daily_scraper.py, hometown_lookup_fixed.py    *)
(* and join_data.py                                                        *)

\* process_games(games, mode): the season's games are of earlier days, the
\* second of them within the last week
process_games(games, mode) ==
    IF mode = "today" THEN <<>>
    ELSE IF mode = "recent" THEN SelectSeq(games, LAMBDA game : game.date = Date2)
    ELSE games

\* euroleague/daily_scraper.py main. When the API does not answer, the
\* clubs, the players and the games all come back empty; `fetched` are the
\* games whose box score fetch_game_stats returned.
euroleague_daily_scraper(dir, n, mode, api_up, fetched) ==
    LET clubs == IF api_up THEN StampedFile(clubs_, n, <<TeamName>>) ELSE <<>>
        players == IF api_up THEN EuroleaguePlayers ELSE <<>>
        games == process_games(IF api_up THEN SeasonGames ELSE <<>>, mode)
        with_stats == SelectSeq(games, LAMBDA game : game \in Range(fetched))
        performances == PerformancesOf(with_stats)
    IN  Ran(SaveAll(dir, n,
                clubs \o StampedFile(players_, n, players)
                      \o StampedFile(american_players_, n, players)
                      \o StampedFile(schedule_, n, ScheduleOf(games))
                      \o (IF Len(with_stats) > 0
                          THEN StampedFile(game_recaps_, n, with_stats) ELSE <<>>)
                      \o (IF Len(performances) > 0
                          THEN StampedFile(american_performances_, n, performances)
                                   \o StampedFile(american_player_stats_, n,
                                                  euroleague_player_stats(performances))
                          ELSE <<>>)),
            "saved", <<>>)

\* load_american_players of hometown_lookup_fixed.py: the last file whose
\* name starts with american_players_2026 (american_players_full_ is
\* written by no script)
load_american_players(dir) ==
    LET names == {name \in DOMAIN dir :
                     StartsWith(name, american_players_ \o <<"_","2","0","2","6">>)}
    IN  IF names = {} THEN NothingLoaded(FALSE) ELSE ParsedOrRaised(dir, LastName(names))

\* hometown_lookup_fixed.py main: every player's result, and the found ones
euroleague_hometown_lookup(dir, n, found) ==
    LET loaded == load_american_players(dir)
        players == IF Exists(loaded.data) THEN Content(loaded.data) ELSE <<>>
        results == [i \in 1..Len(players) |->
                       [code |-> players[i].code,
                        lookup_successful |->
                            \E k \in 1..Len(found) : found[k].code = players[i].code]]
        found_here == SelectSeq(found, LAMBDA p : \E i \in 1..Len(players) :
                                                     players[i].code = p.code)
    IN  IF loaded.raised THEN Ran(dir, "JSONDecodeError", <<>>)
        ELSE IF Len(players) = 0 THEN Ran(dir, "no data", <<>>)
        ELSE Ran(SaveAll(dir, n,
                     StampedFile(american_hometowns_, n, results)
                         \o StampedFile(american_hometowns_found_, n, found_here)),
                 "saved", <<>>)

\* the loader calls of euroleague/join_data.py main, in the order it makes
\* them
OneStar(before) == <<before, DotJson>>
euroleague_loads(dir) ==
    [players |-> euroleague_load_latest_json(dir, OneStar(american_players_ \o <<"_","2">>)),
     hometowns |-> euroleague_load_latest_json(dir, OneStar(american_hometowns_found_ \o <<"_">>)),
     stats |-> euroleague_load_latest_json(dir, OneStar(american_player_stats_ \o <<"_">>)),
     performances |-> euroleague_load_latest_json(dir, OneStar(american_performances_ \o <<"_">>)),
     schedule |-> euroleague_load_latest_json(dir, OneStar(schedule_ \o <<"_">>)),
     clubs |-> euroleague_load_latest_json(dir, OneStar(clubs_ \o <<"_">>))]

\* the summary record: every field except all_games
euroleague_summary(p) == [field \in DOMAIN p \ {"all_games"} |-> p[field]]

\* euroleague/join_data.py main, from the loaded sources on
euroleague_sources(loads) ==
    [NoFiles EXCEPT !.players = loads.players.data,
                    !.hometowns = loads.hometowns.data,
                    !.stats = loads.stats.data,
                    !.performances = loads.performances.data]

euroleague_unified_players(players, fs) ==
    sort_by_ppg_desc([i \in 1..Len(players) |-> euroleague_unified(players[i], fs)])

euroleague_save(dir, n, loads, unified_players) ==
    Ran(SaveAll(dir, n,
            BothFiles(unified_american_players_, n, unified_players)
                \o StampedFile(american_players_summary_, n,
                               [i \in 1..Len(unified_players) |->
                                   euroleague_summary(unified_players[i])])),
        "saved", loads)

euroleague_join_players(dir, n, loads, players) ==
    IF \E i \in 1..Len(players) :
           sort_by_date_raises(euroleague_games(loads.performances.data, players[i].code))
    THEN Ran(dir, "TypeError", loads)
    ELSE euroleague_save(dir, n, loads,
                         euroleague_unified_players(players, euroleague_sources(loads)))

euroleague_join_loaded(dir, n, loads) ==
    IF \E loader \in DOMAIN loads : loads[loader].raised
    THEN Ran(dir, "JSONDecodeError", loads)
    ELSE IF ~Exists(loads.players.data)
    THEN Ran(dir, "no data", loads)
    ELSE euroleague_join_players(dir, n, loads, Content(loads.players.data))

euroleague_join(dir, n) == euroleague_join_loaded(dir, n, euroleague_loads(dir))

-----------------------------------------------------------------------------
(* The ESAKE directory: esake_scraper.py, esake_boxscore_scraper.py and    *)
(* join_data.py                                                            *)

EsakeRoster == <<[name |-> SharifeCooper, team |-> <<"A","E","K">>, height_cm |-> 196]>>
EsakeLineup == <<SharifeCooper, KouperSarife2>>

\* esake_scraper.py main: the two stamped files, then the two latest ones
esake_scraper(dir, n, teams_fetched, interrupted) ==
    LET players == IF teams_fetched THEN EsakeRoster ELSE <<>>
        teams == IF teams_fetched THEN <<EsakeRoster[1].team>> ELSE <<>>
    IN  Ran(Saves(dir, n,
                << <<Stamped(esake_american_stats_, n), esake_american_stats_, players>>,
                   <<Stamped(esake_schedule_, n), esake_schedule_, teams>>,
                   <<Latest(esake_american_stats_), esake_american_stats_, players>>,
                   <<Latest(esake_schedule_), esake_schedule_, teams>> >>,
                interrupted),
            Ended(interrupted), <<>>)

\* esake_boxscore_scraper.py main
esake_boxscore_scraper(dir, n, fetched, interrupted) ==
    LET box_scores == BoxScoresOf(EsakeLineup, fetched)
    IN  Ran(Saves(dir, n,
                << <<Stamped(esake_games_, n), esake_games_, ScheduleOf(fetched)>>,
                   <<Stamped(esake_boxscores_, n), esake_boxscores_, box_scores>>,
                   <<Latest(esake_games_), esake_games_, ScheduleOf(fetched)>>,
                   <<Latest(esake_boxscores_), esake_boxscores_, box_scores>> >>,
                interrupted),
            Ended(interrupted), <<>>)

\* the loader calls of esake/join_data.py main, in the order it makes them
esake_loads(dir) ==
    [players |-> load_json(dir, Latest(esake_american_stats_)),
     teams |-> load_json(dir, Latest(esake_schedule_)),
     boxscores |-> load_json(dir, Latest(esake_boxscores_))]

\* esake/join_data.py main, from the loaded sources on
esake_unified_players(players, pg) ==
    sort_by_name([i \in 1..Len(players) |-> esake_unified(players[i], pg)])

esake_join_loaded(dir, n, loads) ==
    IF loads.players.raised THEN Ran(dir, "JSONDecodeError", loads)
    ELSE IF ~Exists(loads.players.data) THEN Ran(dir, "no data", loads)
    ELSE IF loads.teams.raised \/ loads.boxscores.raised
    THEN Ran(dir, "JSONDecodeError", loads)
    ELSE Ran(SaveAll(dir, n,
                 BothFiles(unified_american_players_, n,
                           esake_unified_players(Content(loads.players.data),
                                                 LoadedPlayerGames(loads.boxscores.data)))),
             "saved", loads)

esake_join(dir, n) == esake_join_loaded(dir, n, esake_loads(dir))

-----------------------------------------------------------------------------
(* The BBL directory: bbl_stats_scraper.py and hometown_lookup.py          *)

BblRoster ==
    <<[name |-> FrankBartley, team |-> <<"U","l","m">>],
      [name |-> SharifeCooper, team |-> <<"U","l","m">>]>>

\* bbl_stats_scraper.py main: nothing is saved `if not raw_stats`
bbl_stats_scraper(dir, n, stats_fetched, interrupted) ==
    IF ~stats_fetched THEN Ran(dir, "no data", <<>>)
    ELSE Ran(Saves(dir, n,
                 BothFiles(bbl_all_stats_, n, BblRoster)
                     \o BothFiles(bbl_american_stats_, n, BblRoster),
                 interrupted),
             Ended(interrupted), <<>>)

\* load_bbl_players: an error is logged when the file is missing, and
\* json.load is in no try
load_bbl_players(dir) ==
    IF Latest(bbl_american_stats_) \notin DOMAIN dir THEN NothingLoaded(FALSE)
    ELSE ParsedOrRaised(dir, Latest(bbl_american_stats_))

\* bbl/hometown_lookup.py main: the stamped file holds every player's
\* result, the latest file "just successful lookups"
bbl_hometown_results(players, found) ==
    [i \in 1..Len(players) |->
        [name |-> players[i].name, lookup_successful |-> players[i].name \in found]]

bbl_hometown_lookup_loaded(dir, n, loaded, results) ==
    IF loaded.raised THEN Ran(dir, "JSONDecodeError", <<>>)
    ELSE IF Len(results) = 0 THEN Ran(dir, "no data", <<>>)
    ELSE Ran(SaveAll(dir, n,
                 << <<Stamped(bbl_hometowns_, n), bbl_hometowns_, results>>,
                    <<Latest(bbl_hometowns_), bbl_hometowns_,
                      SelectSeq(results, LAMBDA p : p.lookup_successful)>> >>),
             "saved", <<>>)

bbl_hometown_lookup(dir, n, found) ==
    bbl_hometown_lookup_loaded(dir, n, load_bbl_players(dir),
        bbl_hometown_results(
            IF Exists(load_bbl_players(dir).data)
            THEN Content(load_bbl_players(dir).data) ELSE <<>>, found))

-----------------------------------------------------------------------------
(* The directory through runs of the league's scripts                      *)

DirLeagues == {"lba", "euroleague", "esake", "bbl"}
Modes == {"all", "recent", "today"}

InitDir ==
    /\ league \in DirLeagues
    /\ files = EmptyDir
    /\ runs = 0
    /\ fn = "none" /\ arg = <<>> /\ ret = <<>> /\ unified = <<>>

\* a script runs to its end: the clock gives its timestamp
Run(script, result) ==
    /\ fn' = script
    /\ files' = result.dir
    /\ arg' = result.loads
    /\ ret' = <<result.outcome>>
    /\ runs' = runs + 1
    /\ UNCHANGED <<league, unified>>

LbaDailyScraperRun ==
    /\ league = "lba" /\ runs < MaxRuns
    /\ \E clubs_fetched \in BOOLEAN, games \in FetchedGames, interrupted \in BOOLEAN :
           Run("daily_scraper",
               lba_daily_scraper(files, runs + 1, clubs_fetched, games, interrupted))

LbaScraperRun ==
    /\ league = "lba" /\ runs < MaxRuns
    /\ \E games \in FetchedGames, interrupted \in BOOLEAN :
           Run("lba_scraper", lba_scraper(files, runs + 1, games, interrupted))

LbaJoinRun ==
    /\ league = "lba" /\ runs < MaxRuns
    /\ Run("join_data", lba_join(files, runs + 1))

EuroleagueDailyScraperRun ==
    /\ league = "euroleague" /\ runs < MaxRuns
    /\ \E mode \in Modes, api_up \in BOOLEAN, fetched \in FetchedGames :
           Run("daily_scraper",
               euroleague_daily_scraper(files, runs + 1, mode, api_up, fetched))

EuroleagueHometownLookupRun ==
    /\ league = "euroleague" /\ runs < MaxRuns
    /\ \E found \in {<<>>, HometownsFound(PlayerCode, Chicago, Illinois)} :
           Run("hometown_lookup_fixed", euroleague_hometown_lookup(files, runs + 1, found))

EuroleagueJoinRun ==
    /\ league = "euroleague" /\ runs < MaxRuns
    /\ Run("join_data", euroleague_join(files, runs + 1))

EsakeScraperRun ==
    /\ league = "esake" /\ runs < MaxRuns
    /\ \E teams_fetched \in BOOLEAN, interrupted \in BOOLEAN :
           Run("esake_scraper", esake_scraper(files, runs + 1, teams_fetched, interrupted))

EsakeBoxscoreScraperRun ==
    /\ league = "esake" /\ runs < MaxRuns
    /\ \E fetched \in FetchedGames, interrupted \in BOOLEAN :
           Run("esake_boxscore_scraper",
               esake_boxscore_scraper(files, runs + 1, fetched, interrupted))

EsakeJoinRun ==
    /\ league = "esake" /\ runs < MaxRuns
    /\ Run("join_data", esake_join(files, runs + 1))

BblStatsScraperRun ==
    /\ league = "bbl" /\ runs < MaxRuns
    /\ \E stats_fetched \in BOOLEAN, interrupted \in BOOLEAN :
           Run("bbl_stats_scraper",
               bbl_stats_scraper(files, runs + 1, stats_fetched, interrupted))

BblHometownLookupRun ==
    /\ league = "bbl" /\ runs < MaxRuns
    /\ \E found \in {{}, {SharifeCooper}, {FrankBartley, SharifeCooper}} :
           Run("hometown_lookup", bbl_hometown_lookup(files, runs + 1, found))

NextDir ==
    \/ LbaDailyScraperRun
    \/ LbaScraperRun
    \/ LbaJoinRun
    \/ EuroleagueDailyScraperRun
    \/ EuroleagueHometownLookupRun
    \/ EuroleagueJoinRun
    \/ EsakeScraperRun
    \/ EsakeBoxscoreScraperRun
    \/ EsakeJoinRun
    \/ BblStatsScraperRun
    \/ BblHometownLookupRun

SpecDir == InitDir /\ [][NextDir]_vars

-----------------------------------------------------------------------------
(* Properties of the pure helpers, checked under SpecCalls                 *)

MatchReturned == fn = "match_names" /\ Len(ret) = 1
MaxOfScores(scores) == CHOOSE m \in Range(scores) : \A x \in Range(scores) : x <= m

\* C4: match_names returns a candidate key only if that candidate's score is
\* at least 3 and no candidate has a strictly higher score; if no candidate
\* scores at least 3 (an empty or None input name and an empty candidate
\* collection included) it returns None. The call always returns a value.
C4_MatchOnlyTopScoreAtLeast3 ==
    MatchReturned =>
        LET keys == arg.greek_names
            scores == ret[1].scores
            match == ret[1].match
        IN  /\ match # None =>
                \E i \in 1..Len(keys) :
                    /\ keys[i] = match
                    /\ scores[i] >= 3
                    /\ \A j \in 1..Len(keys) : scores[j] <= scores[i]
            /\ (\A i \in 1..Len(keys) : scores[i] < 3) => match = None

\* A candidate is returned while another candidate scored lower.
C4_Witness_MatchReturned ==
    /\ MatchReturned
    /\ ret[1].match # None
    /\ \E j \in 1..Len(arg.greek_names) :
          /\ ret[1].scores[j] >= 0
          /\ ret[1].scores[j] < MaxOfScores(ret[1].scores)

\* The tokens the scoring loop compares: the normalized name split at blanks.
TokensOf(name) == Split(esake_normalize_name(name))

OneContainsTheOther(a, b) == Contains(a, b) \/ Contains(b, a)

\* The score as the claim's sentence gives it: the length test guards the
\* substring points only, and the bonus has no condition but the 4-prefix.
StatedPairPoints(a, b) ==
    IF Len(a) >= 3 /\ Len(b) >= 3 /\ OneContainsTheOther(a, b) THEN 2
    ELSE IF Prefix(a, 3) = Prefix(b, 3) THEN 1 ELSE 0

StatedBonus(eng, greek) ==
    IF Prefix(eng[Len(eng)], 4) = Prefix(greek[1], 4) THEN 3 ELSE 0

StatedScore(eng, greek) ==
    SumSeq(Flatten([i \in 1..Len(eng) |->
                      [j \in 1..Len(greek) |-> StatedPairPoints(eng[i], greek[j])]]))
    + StatedBonus(eng, greek)

\* The score with the conditions the loop has: a pair earns points only when
\* both tokens have at least 3 characters, and the bonus is given only to a
\* name of two or more tokens whose last token and the candidate's first
\* token both have at least 3 characters.
GuardedPairPoints(a, b) ==
    IF Len(a) < 3 \/ Len(b) < 3 THEN 0
    ELSE IF OneContainsTheOther(a, b) THEN 2
    ELSE IF Prefix(a, 3) = Prefix(b, 3) THEN 1 ELSE 0

GuardedBonus(eng, greek) ==
    IF /\ Len(eng) >= 2
       /\ Len(eng[Len(eng)]) >= 3 /\ Len(greek[1]) >= 3
       /\ Prefix(eng[Len(eng)], 4) = Prefix(greek[1], 4)
    THEN 3 ELSE 0

GuardedScore(eng, greek) ==
    SumSeq(Flatten([i \in 1..Len(eng) |->
                      [j \in 1..Len(greek) |-> GuardedPairPoints(eng[i], greek[j])]]))
    + GuardedBonus(eng, greek)

\* C5 as stated: for every input name of any number of tokens and every
\* candidate key, the score is 2 per pair of tokens of 3 or more characters
\* one of which contains the other, plus 1 per remaining pair sharing the
\* first 3 characters, plus 3 whenever the last input token and the first
\* candidate token share their first 4 characters.
C5_ScoreAsStated ==
    MatchReturned =>
        \A i \in 1..Len(arg.greek_names) :
            ret[1].scores[i] >= 0 =>
                ret[1].scores[i] = StatedScore(TokensOf(arg.english_name),
                                               TokensOf(arg.greek_names[i]))

\* C5 amended: the score is 2 per pair of tokens of 3 or more characters one
\* of which contains the other, plus 1 per remaining pair of tokens of 3 or
\* more characters sharing the first 3 characters, plus 3 when the input has
\* at least two tokens and its last token and the first candidate token both
\* have 3 or more characters and share their first 4 characters.
C5_ScoreWithGuards ==
    MatchReturned =>
        \A i \in 1..Len(arg.greek_names) :
            ret[1].scores[i] >= 0 =>
                ret[1].scores[i] = GuardedScore(TokensOf(arg.english_name),
                                                TokensOf(arg.greek_names[i]))

\* A one-token name whose token starts the candidate's first token: the
\* pair earns its 2 points and no bonus is added.
C5_Witness_SingleTokenNoBonus ==
    /\ MatchReturned
    /\ arg.english_name # None /\ arg.english_name # <<>>
    /\ Len(TokensOf(arg.english_name)) = 1
    /\ \E i \in 1..Len(arg.greek_names) :
          /\ ret[1].scores[i] = 2
          /\ StatedBonus(TokensOf(arg.english_name), TokensOf(arg.greek_names[i])) = 3

\* C6: the result is determined by the two arguments, and among candidates
\* that tie for the highest score the one that comes first in the iteration
\* order of the candidate collection is returned.
C6_FirstOfTiedCandidatesWins ==
    MatchReturned /\ ret[1].match # None =>
        \E i \in 1..Len(arg.greek_names) :
            /\ arg.greek_names[i] = ret[1].match
            /\ ret[1].scores[i] = MaxOfScores(ret[1].scores)
            /\ \A j \in 1..(i - 1) : ret[1].scores[j] < ret[1].scores[i]

\* Two candidates tie for the highest score and the earlier one is returned.
C6_Witness_TieBroken ==
    /\ MatchReturned
    /\ ret[1].match # None
    /\ \E i, j \in 1..Len(arg.greek_names) :
          /\ i < j
          /\ arg.greek_names[i] = ret[1].match
          /\ ret[1].scores[j] = ret[1].scores[i]

\* C7: for every name, names ending in several generational suffix tokens
\* included, each name normalizer of the repository returns on its own
\* output that same output.
C7_NormalizeIdempotent ==
    fn \in Normalizers /\ Len(ret) = 2 => ret[2] = ret[1]

\* The height as the claim's sentence gives it, in whole numbers:
\* total_inches = cm / 2.54 = 50 cm / 127, so 127 * (total_inches mod 12)
\* is (50 cm) mod 1524, and rounding it to the nearest inch never meets a
\* tie because 127 is odd.
StatedHeight(cm) ==
    LET feet == (50 * cm) \div 1524
        rest == (50 * cm) % 1524
        inches == IF 2 * (rest % 127) > 127 THEN (rest \div 127) + 1 ELSE rest \div 127
    IN  IF inches = 12 THEN <<feet + 1, 0>> ELSE <<feet, inches>>

\* C8: every join that derives the height from centimetres emits
\* feet = floor(total_inches / 12) and inches = round(total_inches mod 12),
\* carried to feet + 1 and 0 inches when the rounding gives 12, so that
\* inches is in 0..11 and 196 cm gives 6 ft 5 in.
C8_HeightRoundedWithCarry ==
    fn \in HeightCalls /\ Len(ret) = 1 /\ arg > 0 =>
        /\ ret[1] = StatedHeight(arg)
        /\ ret[1][2] \in 0..11
        /\ arg = 196 => ret[1] = <<6, 5>>

-----------------------------------------------------------------------------
(* Properties of the joins, checked under Spec                             *)

Saved == ret = <<"saved">>
Records == {unified[i] : i \in 1..Len(unified)}

\* the full game log a record embeds
GameLogOf(r) == IF "game_log" \in DOMAIN r THEN r.game_log ELSE r.all_games

\* t tenths is sum / n rounded to one decimal, a tie going to the even tenth
IsRoundedMean(t, sum, n) ==
    LET diff == 10 * sum - t * n
        dist == IF diff < 0 THEN 0 - diff ELSE diff
    IN  /\ 2 * dist <= n
        /\ 2 * dist = n => t % 2 = 0

\* C1: in every unified record whose embedded game log is non-empty, ppg is
\* the mean of the points of the game-log entries rounded to one decimal,
\* and likewise rpg from the rebounds and apg from the assists, in every
\* league's join, those that copy the averages from a stats file included.
C1_AveragesAreRoundedMeans ==
    \A r \in Records :
        LET game_log == GameLogOf(r)
        IN  Len(game_log) > 0 =>
                /\ IsRoundedMean(r.ppg, SumSeq(PointsOf(game_log)), Len(game_log))
                /\ IsRoundedMean(r.rpg, SumSeq(ReboundsOf(game_log)), Len(game_log))
                /\ IsRoundedMean(r.apg, SumSeq(AssistsOf(game_log)), Len(game_log))

\* A record of a join that copies the averages, with three games whose
\* mean of 2/3 point is not a whole number of tenths.
C1_Witness_CopiedAverageRounded ==
    /\ league = "euroleague" /\ Saved
    /\ \E r \in Records :
          /\ Len(r.all_games) = 3
          /\ SumSeq(PointsOf(r.all_games)) = 2
          /\ r.ppg = 7

\* the box score keys and game logs the ESAKE join built
EsakeKeys == LoadedPlayerGames(files.boxscores).keys
EsakeGames(key) == LoadedPlayerGames(files.boxscores).games[key]

\* the first pattern the override table lists for this exact name that is a
\* box score key; None when the name is not in the table or none is a key
OverrideKey(name) ==
    LET present == {i \in 1..Len(MappingsFor(name)) : MappingsFor(name)[i] \in Range(EsakeKeys)}
    IN  IF present = {} THEN None
        ELSE MappingsFor(name)[CHOOSE i \in present : \A j \in present : i <= j]

FuzzyGameLog(name) ==
    LET matched == match_names(name, EsakeKeys)
    IN  IF matched = None THEN <<>> ELSE EsakeGames(matched)

\* C2 as stated: the ESAKE join takes a player's game log from the box
\* score key equal to the name first, then from the manual override table,
\* then from the fuzzy match, each rule only when those before found nothing.
C2_ExactThenOverrideThenFuzzy ==
    league = "esake" =>
        \A r \in Records :
            r.game_log =
                IF r.name \in Range(EsakeKeys) THEN EsakeGames(r.name)
                ELSE IF OverrideKey(r.name) # None THEN EsakeGames(OverrideKey(r.name))
                ELSE FuzzyGameLog(r.name)

\* C2 amended: the manual override table is consulted first, then the box
\* score key equal to the name, then the fuzzy match, each rule only when
\* those before found nothing.
C2_OverrideThenExactThenFuzzy ==
    league = "esake" =>
        \A r \in Records :
            r.game_log =
                IF OverrideKey(r.name) # None THEN EsakeGames(OverrideKey(r.name))
                ELSE IF r.name \in Range(EsakeKeys) THEN EsakeGames(r.name)
                ELSE FuzzyGameLog(r.name)

\* A player whose name is a box score key and who has an override key
\* there too: the record carries the games of the override key.
C2_Witness_OverrideBeatsExact ==
    /\ league = "esake" /\ Saved
    /\ \E r \in Records :
          /\ r.name \in Range(EsakeKeys)
          /\ OverrideKey(r.name) # None
          /\ Len(r.game_log) > 0
          /\ r.game_log = EsakeGames(OverrideKey(r.name))
          /\ r.game_log # EsakeGames(r.name)

\* the table's English name of the player a display name denotes
TableNameOf(name) == IF name = CooperSharife THEN SharifeCooper ELSE name

AveragesComeFrom(r, games) ==
    /\ r.game_log = games
    /\ r.games_played = Len(games)
    /\ Len(games) > 0 =>
          /\ IsRoundedMean(r.ppg, SumSeq(PointsOf(games)), Len(games))
          /\ IsRoundedMean(r.rpg, SumSeq(ReboundsOf(games)), Len(games))
          /\ IsRoundedMean(r.apg, SumSeq(AssistsOf(games)), Len(games))

\* C3 as stated: when the override table lists for a player a box score key
\* that is present, the record's game log and averages come from that key,
\* also for the player named "Cooper, Sharife" whose Greek key is present.
C3_OverrideAlsoForCooperSharife ==
    league = "esake" =>
        \A r \in Records :
            OverrideKey(TableNameOf(r.name)) # None =>
                AveragesComeFrom(r, EsakeGames(OverrideKey(TableNameOf(r.name))))

\* C3 amended: when the player's name is exactly an English key of the
\* override table and a listed box score key is present, the game log and
\* the averages come from the first such key; the name "Cooper, Sharife" is
\* not a key of the table, so its record carries the games of the exact or
\* fuzzy match, and none when there is no such match.
C3_OverrideForExactTableName ==
    league = "esake" =>
        \A r \in Records :
            /\ OverrideKey(r.name) # None =>
                  AveragesComeFrom(r, EsakeGames(OverrideKey(r.name)))
            /\ r.name = CooperSharife =>
                  AveragesComeFrom(r, IF r.name \in Range(EsakeKeys)
                                      THEN EsakeGames(r.name)
                                      ELSE FuzzyGameLog(r.name))

\* "Sharife Cooper" with both of his listed keys in the box scores, the
\* second listed one met first there: the first listed key gives the games.
C3_Witness_FirstListedKeyUsed ==
    /\ league = "esake" /\ Saved
    /\ \E r \in Records :
          /\ r.name = SharifeCooper
          /\ {KouperSarife, KouperSarife2} \subseteq Range(EsakeKeys)
          /\ Len(r.game_log) > 0
          /\ r.game_log = EsakeGames(KouperSarife)
          /\ r.game_log # EsakeGames(KouperSarife2)

IsPresent(value) == value # None /\ Len(value) > 0

\* C9: in every unified record with a hometown, hometown is "city, state"
\* exactly when the hometown city and the hometown state are both non-null
\* and non-empty, and null otherwise; never one part alone or the text None.
C9_HometownOnlyWhenBothParts ==
    \A r \in Records :
        "hometown" \in DOMAIN r =>
            IF IsPresent(r.hometown_city) /\ IsPresent(r.hometown_state)
            THEN r.hometown = r.hometown_city \o <<",", " ">> \o r.hometown_state
            ELSE r.hometown = None

\* The lookup found the city and no state: the record has the city and a
\* null hometown.
C9_Witness_CityWithoutState ==
    /\ Saved
    /\ Exists(files.hometowns)
    /\ \E r \in Records :
          /\ r.hometown_city = Chicago
          /\ r.hometown_state = None
          /\ r.hometown = None

\* the lists of games a record carries
GameListsOf(r) ==
    {r[f] : f \in DOMAIN r \cap {"game_log", "all_games", "recent_games", "past_games"}}

Dated(entry) == entry.date # None
KeyOf(entry) == IF entry.date = None THEN <<>> ELSE entry.date

-----------------------------------------------------------------------------
(* Properties of the team schedule lookups, checked under SpecLookups      *)

LookupReturned == fn \in {"bsl_team_games", "lba_team_games"} /\ Len(ret) = 1

\* the bucket of one team-name key, as the join sorts it
BucketOf(schedule, team_key, played) ==
    IF played THEN sort_by_date_desc(team_games(schedule, team_key, TRUE))
    ELSE sort_by_date(team_games(schedule, team_key, FALSE))

SimilarKeys(schedule, team_name, played) ==
    { team_key \in Range(team_keys(schedule, played)) :
        Contains(team_key, team_name) \/ Contains(team_name, team_key) }

\* C11: the past games and the upcoming games of a player's team are the
\* bucket under the exact team name; when there is no such bucket and some
\* team-name key contains the team name or is contained in it, the games
\* come from such a key, for the past games as well as the upcoming ones.
C11_SubstringFallbackForBothLists ==
    LookupReturned =>
        \A played \in BOOLEAN :
            LET got == IF played THEN ret[1].past_games ELSE ret[1].upcoming_games
                keys == Range(team_keys(arg.schedule, played))
                similar == SimilarKeys(arg.schedule, arg.team_name, played)
            IN  IF arg.team_name \in keys
                THEN got = BucketOf(arg.schedule, arg.team_name, played)
                ELSE (Truthy(arg.team_name) /\ similar # {}) =>
                         \E team_key \in similar :
                             got = BucketOf(arg.schedule, team_key, played)

-----------------------------------------------------------------------------
(* Players without matched games, checked under Spec                       *)

PrimaryOf(file) == IF Exists(file) THEN Content(file) ELSE <<>>

ZeroAverages(r) ==
    /\ Len(GameLogOf(r)) = 0
    /\ r.games_played = 0 /\ r.ppg = 0 /\ r.rpg = 0 /\ r.apg = 0

\* the primary players of the league's join that have no matched game, each
\* by the field and value that identify the player's record
ZeroGamePlayers ==
    LET players == PrimaryOf(files.players)
        pg == LoadedPlayerGames(files.boxscores)
        stats == PrimaryOf(files.stats)
    IN  IF league = "esake"
        THEN {<<"name", players[i].name>> : i \in
                 {k \in 1..Len(players) : Len(esake_game_log(players[k].name, pg)) = 0}}
        ELSE IF league = "lnb"
        THEN {<<"name", players[i].name>> : i \in
                 {k \in 1..Len(players) : Len(lnb_game_log(players[k].name, pg)) = 0}}
        ELSE IF league = "euroleague"
        THEN {<<"code", players[i].code>> : i \in
                 {k \in 1..Len(players) :
                     Len(euroleague_games(files.performances, players[k].code)) = 0}}
        ELSE {<<"name", stats[i].name>> : i \in
                 {k \in 1..Len(stats) : Len(stats[k].game_log) = 0}}

\* C12: once the join has run, every primary player with zero matched game
\* entries has a record in the join's output, with games_played 0 and ppg,
\* rpg and apg 0, and the join has not raised; no record with an empty game
\* log has a non-zero average.
C12_ZeroGamesRecordEmitted ==
    runs = 1 =>
        /\ \A r \in Records : Len(GameLogOf(r)) = 0 => ZeroAverages(r)
        /\ \A z \in ZeroGamePlayers :
               /\ Saved
               /\ \E r \in Records : r[z[1]] = z[2] /\ ZeroAverages(r)


-----------------------------------------------------------------------------
(* Properties of the league directory, checked under SpecDir               *)

\* the loader calls a league's join makes, made on a directory
LoadsOf(dir) ==
    CASE league = "lba" -> lba_loads(dir)
      [] league = "euroleague" -> euroleague_loads(dir)
      [] league = "esake" -> esake_loads(dir)

JoinRan == fn = "join_data"

\* C13: a join run changes no source: every loader call the join makes
\* selects, right after the run, the file it selected right before the run,
\* and that file holds what it held.
C13_JoinChangesNoSource ==
    JoinRan => \A loader \in DOMAIN arg :
                   /\ LoadsOf(files)[loader].name = arg[loader].name
                   /\ LoadsOf(files)[loader].data = arg[loader].data

\* the datasets whose snapshots a loader call is meant to choose among
SourceDatasets(loader) ==
    CASE league = "lba" ->
             [stats |-> {lba_american_stats_}, players |-> {american_players_},
              hometowns |-> {american_hometowns_found_},
              schedule |-> {lba_schedule_, schedule_}][loader]
      [] league = "euroleague" ->
             [players |-> {american_players_}, hometowns |-> {american_hometowns_found_},
              stats |-> {american_player_stats_},
              performances |-> {american_performances_},
              schedule |-> {schedule_}, clubs |-> {clubs_}][loader]
      [] league = "esake" ->
             [players |-> {esake_american_stats_}, teams |-> {esake_schedule_},
              boxscores |-> {esake_boxscores_}][loader]

\* the file is a snapshot of one of the datasets, and no file of the
\* directory is a later snapshot of that dataset
NewestSnapshot(dir, name, datasets) ==
    /\ dir[name].dataset \in datasets
    /\ \A other \in DOMAIN dir :
           dir[other].dataset = dir[name].dataset => dir[other].stamp <= dir[name].stamp

\* C14: every source file a join run reads is the most recently written
\* snapshot of the dataset the loader call is for: never an older snapshot,
\* and never a file that is not a snapshot of that dataset.
C14_JoinReadsNewestSnapshot ==
    [][JoinRan' =>
          \A loader \in DOMAIN arg' :
              arg'[loader].name # None =>
                  NewestSnapshot(files, arg'[loader].name, SourceDatasets(loader))]_vars

\* the files the last run saved, and the datasets they belong to
WrittenNow == {name \in DOMAIN files : files[name].stamp = runs}
DatasetsWrittenNow == {files[name].dataset : name \in WrittenNow}
SameRecords(a, b) ==
    files[a].valid /\ files[b].valid /\ files[a].records = files[b].records

\* C15 as stated: every dataset a run saves is saved by that run both as
\* its timestamped snapshot and as its _latest file, the two with the same
\* records.
C15_EveryDatasetStampedAndLatest ==
    ret = <<"saved">> =>
        \A dataset \in DatasetsWrittenNow :
            /\ Stamped(dataset, runs) \in WrittenNow
            /\ Latest(dataset) \in WrittenNow
            /\ SameRecords(Stamped(dataset, runs), Latest(dataset))

\* C15: every _latest file saved by a run that ran to its end has a
\* timestamped snapshot of the same dataset saved by the same run, with the
\* same records; of the BBL hometowns the _latest file holds the successful
\* lookups of the snapshot. (Some datasets are saved as a snapshot only.)
C15_LatestHasStampedTwin ==
    ret = <<"saved">> =>
        \A dataset \in DatasetsWrittenNow :
            Latest(dataset) \in WrittenNow =>
                /\ Stamped(dataset, runs) \in WrittenNow
                /\ IF dataset = bbl_hometowns_
                   THEN files[Latest(dataset)].records =
                            SelectSeq(files[Stamped(dataset, runs)].records,
                                      LAMBDA p : p.lookup_successful)
                   ELSE SameRecords(Stamped(dataset, runs), Latest(dataset))

\* a Euroleague join has saved the unified records under both names and the
\* summary as a snapshot only
C15_Witness_EuroleagueJoinSaved ==
    /\ league = "euroleague" /\ JoinRan /\ ret = <<"saved">>
    /\ Latest(unified_american_players_) \in WrittenNow
    /\ Stamped(unified_american_players_, runs) \in WrittenNow
    /\ Len(files[Latest(unified_american_players_)].records) > 0
    /\ Stamped(american_players_summary_, runs) \in WrittenNow
    /\ Latest(american_players_summary_) \notin DOMAIN files

\* the loader calls for the sources that only enrich the primary list
EnrichmentLoaders ==
    CASE league = "lba" -> {"players", "hometowns", "schedule"}
      [] league = "euroleague" -> {"hometowns", "stats", "performances", "schedule", "clubs"}
      [] league = "esake" -> {"teams", "boxscores"}

\* the join's primary list was there to be read
PrimaryLoaded ==
    CASE league = "lba" -> Exists(arg.stats.data) /\ Len(Content(arg.stats.data)) > 0
      [] league = "euroleague" -> Exists(arg.players.data)
      [] league = "esake" -> Exists(arg.players.data)

\* the loader found no file, or none that parses
SourceAbsent(load) == load.name = None \/ load.raised

\* C16: when an enrichment file of a join is missing or is not valid JSON,
\* the join logs a warning for it, does not raise, and saves its output
\* from the sources that remain.
C16_AbsentEnrichmentTolerated ==
    (JoinRan /\ PrimaryLoaded) =>
        /\ ret = <<"saved">>
        /\ \A loader \in EnrichmentLoaders :
               SourceAbsent(arg[loader]) => arg[loader].warned /\ ~arg[loader].raised

-----------------------------------------------------------------------------
(* The HTTP fetch helpers of the scrapers, one call at a time              *)

\* what the server does with one request: requests.get raises Timeout or
\* ConnectionError, or the response comes with a status and a body (a page,
\* a JSON object, or the JSON value null)
Responses ==
    {"Timeout", "ConnectionError", "HTTP 500", "HTTP 200 html", "HTTP 200 json",
     "HTTP 200 json null"}

\* the number of requests the server is there to answer in one call
MaxResponses == 3

NoError == "no exception"

\* requests.get(url, ..., timeout=30) followed by resp.raise_for_status()
get_raises(response) ==
    CASE response = "Timeout" -> "Timeout"
      [] response = "ConnectionError" -> "ConnectionError"
      [] response = "HTTP 500" -> "HTTPError"
      [] OTHER -> NoError

\* resp.json() after a request that did not raise
json_raises(response) ==
    IF get_raises(response) # NoError THEN get_raises(response)
    ELSE IF response = "HTTP 200 html" THEN "JSONDecodeError"
    ELSE NoError

\* the value of resp.json() when it does not raise: null parses to None
resp_json(response) ==
    IF response = "HTTP 200 json null" THEN None ELSE <<response>>

\* the clause `except Exception`
except_Exception(error) == error # NoError

RECURSIVE Pow(_, _)
Pow(base, exponent) == IF exponent = 0 THEN 1 ELSE base * Pow(base, exponent - 1)

\* sleeps are counted in milliseconds
Seconds(n) == n * 1000
HalfSecond == 500

\* api_get(endpoint, params=None, retries=3)
retries == 3

\* the same delay before every retry
constant_delay(attempt) == Seconds(2)

\* delay = 2 ** attempt; time.sleep(delay)
backoff_delay(attempt) == Seconds(Pow(2, attempt))

\* a call in progress: the attempts made, each with the time slept since
\* the attempt before it and the exception it ended with; the time slept
\* after the last attempt; the levels logged; the value returned; the
\* exception that left the helper
NewCall == [attempts |-> <<>>, after |-> 0, log |-> <<>>, result |-> None, raised |-> NoError]

Attempted(call, delay, error) ==
    [call EXCEPT !.attempts = Append(@, [delay |-> delay, error |-> error])]

Logged(call, level) == [call EXCEPT !.log = Append(@, level)]

\* the TheSportsDB api_get of the BBL and LBA daily scrapers, from the
\* iteration `attempt` of its loop on
RECURSIVE api_get_from(_, _, _, _)
api_get_from(network, tries, attempt, call) ==
    IF attempt >= tries THEN call
    ELSE LET delay == IF attempt > 0 THEN backoff_delay(attempt) ELSE 0
             retried == IF attempt > 0 THEN Logged(call, "info") ELSE call
             error == json_raises(network[attempt + 1])
             made == Attempted(retried, delay, error)
         IN IF error = NoError
            THEN [made EXCEPT !.after = HalfSecond, !.result = resp_json(network[attempt + 1])]
            ELSE IF ~except_Exception(error) THEN [made EXCEPT !.raised = error]
            ELSE IF attempt = tries - 1
            THEN Logged(Logged(made, "warning"), "error")
            ELSE api_get_from(network, tries, attempt + 1, Logged(made, "warning"))

\* (variant: one attempt fewer)
api_get_two_attempts(network) == api_get_from(network, 2, 0, NewCall)

api_get(network) == api_get_from(network, retries, 0, NewCall)

\* fetch_page of the ESAKE box score scraper: for attempt in range(3)
RECURSIVE fetch_page_from(_, _, _)
fetch_page_from(network, attempt, call) ==
    IF attempt >= 3 THEN call
    ELSE LET error == get_raises(network[attempt + 1])
             made == Attempted([call EXCEPT !.after = 0], call.after, error)
         IN IF error = NoError
            THEN [made EXCEPT !.after = HalfSecond, !.result = <<network[attempt + 1]>>]
            ELSE IF ~except_Exception(error) THEN [made EXCEPT !.raised = error]
            ELSE fetch_page_from(network, attempt + 1,
                                 [Logged(made, "warning") EXCEPT !.after = Seconds(2)])

fetch_page(network) == fetch_page_from(network, 0, NewCall)

\* api_get of the Euroleague daily scraper: one request in a try
euroleague_api_get(network) ==
    LET error == json_raises(network[1])
        made == Attempted(NewCall, 0, error)
    IN IF error = NoError THEN [made EXCEPT !.result = resp_json(network[1])]
       ELSE IF ~except_Exception(error) THEN [made EXCEPT !.raised = error]
       ELSE Logged(made, "error")

Networks == [1..MaxResponses -> Responses]

FetchHelpers == {"bbl api_get", "lba api_get", "fetch_page", "euroleague api_get"}

\* a helper is called while the server answers as `arg` says
InitFetch ==
    /\ fn \in FetchHelpers /\ arg \in Networks /\ ret = <<>>
    /\ league = "none" /\ files = NoFiles /\ unified = <<>> /\ runs = 0

BblApiGetCall ==
    /\ fn = "bbl api_get" /\ ret = <<>>
    /\ Returned(api_get(arg))

LbaApiGetCall ==
    /\ fn = "lba api_get" /\ ret = <<>>
    /\ Returned(api_get(arg))

FetchPageCall ==
    /\ fn = "fetch_page" /\ ret = <<>>
    /\ Returned(fetch_page(arg))

EuroleagueApiGetCall ==
    /\ fn = "euroleague api_get" /\ ret = <<>>
    /\ Returned(euroleague_api_get(arg))

NextFetch ==
    \/ BblApiGetCall
    \/ LbaApiGetCall
    \/ FetchPageCall
    \/ EuroleagueApiGetCall

SpecFetch == InitFetch /\ [][NextFetch]_vars

-----------------------------------------------------------------------------
(* Properties of the fetch helpers, checked under SpecFetch                *)

Fetched == fn \in FetchHelpers /\ ret # <<>>

TheCall == ret[1]

Delays(call) == [k \in 1..Len(call.attempts) |-> call.attempts[k].delay]

EveryAttemptFailed(call) ==
    \A k \in 1..Len(call.attempts) : call.attempts[k].error # NoError

\* each delay after the first retry's is twice the one before it
GrowsExponentially(delays) ==
    /\ Len(delays) > 1
    /\ delays[2] > 0
    /\ \A k \in 3..Len(delays) : delays[k] = 2 * delays[k - 1]

AttemptsOf(helper) == IF helper = "euroleague api_get" THEN 1 ELSE 3

\* the milliseconds a helper sleeps before its first, second and third attempt
DelaysOf(helper) ==
    CASE helper \in {"bbl api_get", "lba api_get"} -> <<0, 2000, 4000>>
      [] helper = "fetch_page" -> <<0, 2000, 2000>>
      [] helper = "euroleague api_get" -> <<0>>

ApiGetCalled == fn \in {"bbl api_get", "lba api_get"} /\ ret # <<>>

\* C29 as stated: api_get makes at most `retries` requests, none after the
\* first that succeeds, and returns None exactly when all `retries`
\* attempts failed.
C29_NoneExactlyWhenAllAttemptsFailed ==
    ApiGetCalled =>
        LET call == TheCall
            n == Len(call.attempts)
        IN /\ n <= retries
           /\ \A k \in 1..(n - 1) : call.attempts[k].error # NoError
           /\ call.result = None <=> (n = retries /\ EveryAttemptFailed(call))

\* C29: api_get makes at most `retries` requests, none after the first
\* that succeeds; when all `retries` attempts failed it returns None, and
\* otherwise it returns the parsed body of the first successful response,
\* which is None only when that body is the JSON value null.
C29_NoneWhenAllFailedElseParsedBody ==
    ApiGetCalled =>
        LET call == TheCall
            n == Len(call.attempts)
        IN /\ n <= retries
           /\ \A k \in 1..(n - 1) : call.attempts[k].error # NoError
           /\ IF EveryAttemptFailed(call)
              THEN n = retries /\ call.result = None
              ELSE /\ call.result = resp_json(arg[n])
                   /\ call.result = None <=> arg[n] = "HTTP 200 json null"

\* the second attempt of an api_get call was answered with the body null
C29_Witness_NullBodyOnSecondAttempt ==
    /\ fn = "lba api_get" /\ ret # <<>>
    /\ Len(TheCall.attempts) = 2
    /\ TheCall.attempts[1].error # NoError
    /\ TheCall.attempts[2].error = NoError
    /\ arg[2] = "HTTP 200 json null"
    /\ TheCall.result = None

-----------------------------------------------------------------------------
(* Scheduled runs of a league: its scrapers and then its join, beside the  *)
(* same runs with every fetch answered                                     *)

HealLeagues == {"lba", "euroleague", "esake"}

\* lba: daily_scraper.py, lba_scraper.py, join_data.py
lba_pipeline(dir, n, clubs_fetched, games, fetched) ==
    lba_join(lba_scraper(lba_daily_scraper(dir, n, clubs_fetched, games, FALSE).dir,
                         n, fetched, FALSE).dir,
             n)

\* euroleague: daily_scraper.py [--recent | --today], join_data.py
euroleague_pipeline(dir, n, mode, api_up, fetched) ==
    euroleague_join(euroleague_daily_scraper(dir, n, mode, api_up, fetched).dir, n)

\* esake: esake_scraper.py, esake_boxscore_scraper.py, join_data.py
esake_pipeline(dir, n, teams_fetched, fetched) ==
    esake_join(esake_boxscore_scraper(esake_scraper(dir, n, teams_fetched, FALSE).dir,
                                      n, fetched, FALSE).dir,
               n)

\* `files` is the league's directory; `unified` is the directory the same
\* runs leave when no fetch of any run fails; `arg` remembers whether a
\* fetch has failed since the last run without a failure
InitHeal ==
    /\ league \in HealLeagues
    /\ files = EmptyDir /\ unified = EmptyDir
    /\ runs = 0
    /\ fn = "none" /\ ret = <<>>
    /\ arg = [pending |-> FALSE, healing |-> FALSE]

PipelineRun(result, unfailing, all_fetched) ==
    /\ fn' = "pipeline"
    /\ files' = result.dir
    /\ unified' = unfailing.dir
    /\ ret' = <<result.outcome, unfailing.outcome>>
    /\ arg' = [pending |-> ~all_fetched, healing |-> all_fetched /\ arg.pending]
    /\ runs' = runs + 1
    /\ UNCHANGED league

LbaPipelineRun ==
    /\ league = "lba" /\ runs < MaxRuns
    /\ \E clubs_fetched \in BOOLEAN, games \in FetchedGames, fetched \in FetchedGames :
           PipelineRun(lba_pipeline(files, runs + 1, clubs_fetched, games, fetched),
                       lba_pipeline(unified, runs + 1, TRUE, SeasonGames, SeasonGames),
                       clubs_fetched /\ games = SeasonGames /\ fetched = SeasonGames)

EuroleaguePipelineRun ==
    /\ league = "euroleague" /\ runs < MaxRuns
    /\ \E mode \in Modes, api_up \in BOOLEAN, fetched \in FetchedGames :
           PipelineRun(euroleague_pipeline(files, runs + 1, mode, api_up, fetched),
                       euroleague_pipeline(unified, runs + 1, mode, TRUE, SeasonGames),
                       api_up /\ fetched = SeasonGames)

EsakePipelineRun ==
    /\ league = "esake" /\ runs < MaxRuns
    /\ \E teams_fetched \in BOOLEAN, fetched \in FetchedGames :
           PipelineRun(esake_pipeline(files, runs + 1, teams_fetched, fetched),
                       esake_pipeline(unified, runs + 1, TRUE, SeasonGames),
                       teams_fetched /\ fetched = SeasonGames)

NextHeal ==
    \/ LbaPipelineRun
    \/ EuroleaguePipelineRun
    \/ EsakePipelineRun

SpecHeal == InitHeal /\ [][NextHeal]_vars

-----------------------------------------------------------------------------
(* Properties of the scheduled runs, checked under SpecHeal                *)

\* unified_american_players_latest.json, or no file
LatestUnified(dir) ==
    IF Latest(unified_american_players_) \in DOMAIN dir
    THEN <<dir[Latest(unified_american_players_)].valid,
           dir[Latest(unified_american_players_)].records>>
    ELSE <<>>

\* C18: the first run whose fetches all succeed after a run with a failed
\* fetch leaves the league's latest unified player file equal to the one
\* the same runs leave when no fetch of an earlier run failed.
C18_NextCleanRunHeals ==
    (fn = "pipeline" /\ arg.healing) => LatestUnified(files) = LatestUnified(unified)

-----------------------------------------------------------------------------
(* The schedule and game records the scrapers emit, one game at a time     *)

\* intHomeScore and intAwayScore as TheSportsDB gives them: null or a string
RawScores == {None, <<>>, <<"0">>, <<"8","5">>, <<"1","0","2">>}

\* home_final_score and visitor_final_score of a legabasket.it match: null
\* or a number
MatchScores == {NoneInt, 0, 85, 102}

Today == <<"2","0","2","5","-","0","2","-","0","2">>
Tomorrow == <<"2","0","2","5","-","0","2","-","0","3">>

\* match_datetime[:10], or None when the match has none
MatchDates == {None, Date2, Today, Tomorrow}

\* int(score) if score else None
int_if_truthy(score) == IF Truthy(score) THEN ToInt(score) ELSE NoneInt

\* a record leaves the scraper, or the run ends with an exception
Emitted(home_score, away_score, played) ==
    [outcome |-> "emitted", home_score |-> home_score, away_score |-> away_score,
     played |-> played]
RaisedInstead(error) ==
    [outcome |-> error, home_score |-> NoneInt, away_score |-> NoneInt, played |-> FALSE]

\* bbl/daily_scraper.py process_schedule, for one game
process_schedule(game) ==
    LET home_score == game.intHomeScore
        away_score == game.intAwayScore
        played == home_score # None /\ away_score # None
    IN  Emitted(int_if_truthy(home_score), int_if_truthy(away_score), played)

\* lba/daily_scraper.py main, "Process games into clean format"
lba_processed_game(game) ==
    Emitted(int_if_truthy(game.intHomeScore), int_if_truthy(game.intAwayScore),
            game.intHomeScore # None /\ game.intAwayScore # None)

\* lba_scraper.py fetch_game_data: the scores as the page has them
fetch_game_data(match) ==
    [date |-> match.match_datetime,
     home_score |-> match.home_final_score,
     away_score |-> match.visitor_final_score,
     played |-> match.home_final_score # NoneInt /\ match.visitor_final_score # NoneInt]

\* lba_scraper.py main, "For future games, clear box scores": the date is
\* compared with today's as a string, which raises when the date is None
lba_scraper_game(match) ==
    LET game == fetch_game_data(match)
    IN  IF game.date = None THEN RaisedInstead("TypeError")
        ELSE IF StrLess(Today, game.date)
        THEN Emitted(game.home_score, game.away_score, FALSE)
        ELSE IF game.home_score # NoneInt /\ game.away_score # NoneInt
        THEN Emitted(game.home_score, game.away_score, TRUE)
        ELSE Emitted(game.home_score, game.away_score, game.played)

TsdbEvents == [intHomeScore : RawScores, intAwayScore : RawScores]

Matches ==
    [match_datetime : MatchDates, home_final_score : MatchScores,
     visitor_final_score : MatchScores]

\* a scraper has one game of its source before it
InitGames ==
    /\ \/ fn \in {"bbl daily_scraper", "lba daily_scraper"} /\ arg \in TsdbEvents
       \/ fn = "lba_scraper" /\ arg \in Matches
    /\ ret = <<>>
    /\ league = "none" /\ files = NoFiles /\ unified = <<>> /\ runs = 0

BblProcessScheduleCall ==
    /\ fn = "bbl daily_scraper" /\ ret = <<>>
    /\ Returned(process_schedule(arg))

LbaDailyScheduleCall ==
    /\ fn = "lba daily_scraper" /\ ret = <<>>
    /\ Returned(lba_processed_game(arg))

LbaScraperGameCall ==
    /\ fn = "lba_scraper" /\ ret = <<>>
    /\ Returned(lba_scraper_game(arg))

NextGames ==
    \/ BblProcessScheduleCall
    \/ LbaDailyScheduleCall
    \/ LbaScraperGameCall

SpecGames == InitGames /\ [][NextGames]_vars

-----------------------------------------------------------------------------
(* Properties of the emitted game records, checked under SpecGames         *)

GameEmitted == ret # <<>> /\ ret[1].outcome = "emitted"

\* C19: in every schedule or game record a scraper emits, played is true
\* exactly when both scores are non-null, and both scores are null exactly
\* when played is false.
C19_PlayedIffBothScores ==
    GameEmitted =>
        /\ ret[1].played <=> (ret[1].home_score # NoneInt /\ ret[1].away_score # NoneInt)
        /\ (ret[1].home_score = NoneInt /\ ret[1].away_score = NoneInt) <=> ~ret[1].played

-----------------------------------------------------------------------------
(* The dashboard's league-scoped routes, one request at a time             *)

\* the keys of LEAGUES
LEAGUES == {"euroleague", "acb", "bsl", "cba", "nbl", "lnb", "lba", "bbl", "esake"}

\* what there is on disk under a file name: no file, a file that is not
\* JSON, the empty object, or an export with its records
FileStates == {"missing", "invalid", "empty object", "export"}

\* the three files a request's league code names: LEAGUES[code]['data_file'],
\* f'{code}_unified_players_latest.json' and LEAGUES[code]['boxscores_file']
Disks == [data_file : FileStates, unified_file : FileStates, boxscores_file : FileStates]

\* the codes of the one player and the one game of an export
ExportedId == "1"
RequestedIds == {"1", "2"}

\* league codes as they arrive in a URL
RequestedLeagues == {"esake", "lba", "doesnotexist", "ESAKE", "games"}

\* json.load of an existing file: the value, or the exception
json_load(state) ==
    IF state = "invalid" THEN "JSONDecodeError"
    ELSE IF state = "empty object" THEN "{}"
    ELSE "export"

IsFalsy(data) == data \in {"None", "{}"}

\* load_league_data(league_code)
load_league_data(disk, league_code) ==
    IF league_code \notin LEAGUES THEN "None"
    ELSE IF disk.data_file = "missing" THEN "no players"
    ELSE json_load(disk.data_file)

\* load_boxscores_data(league_code)
load_boxscores_data(disk, league_code) ==
    IF league_code \notin LEAGUES THEN "None"
    ELSE IF disk.boxscores_file = "missing" THEN "None"
    ELSE json_load(disk.boxscores_file)

\* the record of `data` whose code or game_id is `id`: "found", "None", or
\* the exception of the load
FindIn(data, id) ==
    IF data = "JSONDecodeError" THEN data
    ELSE IF data = "export" /\ id = ExportedId THEN "found"
    ELSE "None"

\* load_player_detail(league_code, player_code)
load_player_detail(disk, league_code, player_code) ==
    FindIn(IF disk.unified_file # "missing" THEN json_load(disk.unified_file)
           ELSE load_league_data(disk, league_code),
           player_code)

\* get_boxscore_by_game_id(league_code, game_id)
get_boxscore_by_game_id(disk, league_code, game_id) ==
    FindIn(load_boxscores_data(disk, league_code), game_id)

\* the answers of a view
Rendered == [status |-> 200, location |-> "", body |-> "html"]
Text404(body) == [status |-> 404, location |-> "", body |-> body]
\* an exception that leaves the view: Flask answers 500
Unhandled(error) == [status |-> 500, location |-> "", body |-> error]
\* redirect(url_for('home'))
redirect_home == [status |-> 302, location |-> "/", body |-> ""]

\* a view that goes on to its loader whatever the league code is
boxscore_view_unguarded(disk, league_code, game_id) ==
    LET boxscore == get_boxscore_by_game_id(disk, league_code, game_id)
    IN  IF boxscore = "JSONDecodeError" THEN Unhandled(boxscore)
        ELSE IF boxscore = "None" THEN Text404("Box score not found")
        ELSE Rendered

\* @app.route('/league/<league_code>')
league_view(disk, league_code) ==
    IF league_code \notin LEAGUES THEN redirect_home
    ELSE LET data == load_league_data(disk, league_code)
         IN  IF data = "JSONDecodeError" THEN Unhandled(data)
             ELSE IF IsFalsy(data) THEN Text404("No data available")
             ELSE Rendered

\* @app.route('/player/<league_code>/<player_code>')
player_detail(disk, league_code, player_code) ==
    IF league_code \notin LEAGUES THEN redirect_home
    ELSE LET player == load_player_detail(disk, league_code, player_code)
         IN  IF player = "JSONDecodeError" THEN Unhandled(player)
             ELSE IF player = "None" THEN Text404("Player not found")
             ELSE Rendered

\* @app.route('/league/<league_code>/games')
games_view(disk, league_code) ==
    IF league_code \notin LEAGUES THEN redirect_home
    ELSE LET data == load_boxscores_data(disk, league_code)
         IN  IF data = "JSONDecodeError" THEN Unhandled(data)
             ELSE IF IsFalsy(data) THEN Text404("No box score data available")
             ELSE Rendered

\* @app.route('/game/<league_code>/<game_id>')
boxscore_view(disk, league_code, game_id) ==
    IF league_code \notin LEAGUES THEN redirect_home
    ELSE LET boxscore == get_boxscore_by_game_id(disk, league_code, game_id)
         IN  IF boxscore = "JSONDecodeError" THEN Unhandled(boxscore)
             ELSE IF boxscore = "None" THEN Text404("Box score not found")
             ELSE Rendered

\* @app.route('/'): the data file of a league is read inside try/except,
\* and the template shows a dash for a count that is None or 0
home(disk) ==
    LET data == IF disk.data_file = "missing" THEN "None" ELSE json_load(disk.data_file)
        player_count == IF data = "export" THEN 1
                        ELSE IF data = "{}" THEN 0
                        ELSE NoneInt
    IN  [status |-> 200, location |-> "",
         body |-> IF player_count > 0 THEN "1 players" ELSE "- players"]

LeagueRoutes == {"league_view", "player_detail", "games_view", "boxscore_view"}

\* a request has been routed to a view: `files` is the disk, `arg` the
\* variables of the URL
InitDashboard ==
    /\ files \in Disks
    /\ \/ fn \in {"league_view", "games_view"}
          /\ arg \in [league_code : RequestedLeagues]
       \/ fn \in {"player_detail", "boxscore_view"}
          /\ arg \in [league_code : RequestedLeagues, id : RequestedIds]
       \/ fn = "home" /\ arg = <<>>
    /\ ret = <<>>
    /\ league = "none" /\ unified = <<>> /\ runs = 0

HomeRequest ==
    /\ fn = "home" /\ ret = <<>>
    /\ Returned(home(files))

LeagueViewRequest ==
    /\ fn = "league_view" /\ ret = <<>>
    /\ Returned(league_view(files, arg.league_code))

PlayerDetailRequest ==
    /\ fn = "player_detail" /\ ret = <<>>
    /\ Returned(player_detail(files, arg.league_code, arg.id))

GamesViewRequest ==
    /\ fn = "games_view" /\ ret = <<>>
    /\ Returned(games_view(files, arg.league_code))

BoxscoreViewRequest ==
    /\ fn = "boxscore_view" /\ ret = <<>>
    /\ Returned(boxscore_view(files, arg.league_code, arg.id))

NextDashboard ==
    \/ HomeRequest
    \/ LeagueViewRequest
    \/ PlayerDetailRequest
    \/ GamesViewRequest
    \/ BoxscoreViewRequest

SpecDashboard == InitDashboard /\ [][NextDashboard]_vars

-----------------------------------------------------------------------------
(* Properties of the dashboard routes, checked under SpecDashboard         *)

Answered == fn \in LeagueRoutes /\ ret # <<>>

\* C20: on each of the four league-scoped routes a request whose league code
\* is not a key of LEAGUES is answered with a 302 redirect to / and never
\* with an error response.
C20_UnknownLeagueRedirectsHome ==
    (Answered /\ arg.league_code \notin LEAGUES) =>
        /\ ret[1].status = 302
        /\ ret[1].location = "/"

\* /game/doesnotexist/1 has been answered while the disk holds an export
\* under every name
C20_Witness_UnknownLeagueGame ==
    /\ fn = "boxscore_view" /\ ret # <<>>
    /\ arg.league_code = "doesnotexist" /\ arg.id = ExportedId
    /\ files.boxscores_file = "export"
    /\ ret[1] = redirect_home

\* the request is for a league that LEAGUES configures
ConfiguredLeague == Answered /\ arg.league_code \in LEAGUES

\* C21: for a configured league whose data file does not exist, each of the
\* four league-scoped routes answers with a plain-text 404 and renders no
\* page.
C21_MissingDataFileIs404 ==
    (ConfiguredLeague /\ files.data_file = "missing") => ret[1].status = 404

\* the file a view opens is on disk and is not JSON
ReadsMalformedFile ==
    /\ ret # <<>>
    /\ CASE fn = "home" -> files.data_file = "invalid"
         [] fn = "league_view" -> ConfiguredLeague /\ files.data_file = "invalid"
         [] fn = "player_detail" ->
                /\ ConfiguredLeague
                /\ \/ files.unified_file = "invalid"
                   \/ files.unified_file = "missing" /\ files.data_file = "invalid"
         [] OTHER -> ConfiguredLeague /\ files.boxscores_file = "invalid"

\* C22: a route that reads a malformed JSON file catches the parse error
\* and answers with the placeholder page or a 404; no request ends in an
\* unhandled exception.
C22_MalformedFileIsCaught ==
    ReadsMalformedFile => ret[1].status \in {200, 404}

-----------------------------------------------------------------------------
(* The player list of /league/<code>: the filters and the sort             *)

\* the players stored in a league's data file: a name, and a team and a
\* home state that may be null
StoredPlayer(name, team, hometown_state) ==
    [name |-> name, team |-> team, hometown_state |-> hometown_state]

TeamX == <<"X">>
TeamY == <<"Y">>
StateIL == <<"I","L">>
StateNY == <<"N","Y">>

StoredPlayers ==
    { StoredPlayer(<<"A","l">>, TeamX, StateIL),
      StoredPlayer(<<"a","l","b">>, TeamY, None),
      StoredPlayer(<<"B","o">>, TeamX, StateNY),
      StoredPlayer(<<"B","o">>, None, StateIL) }

\* the longest list of stored players
MaxPlayers == 3

\* request.args: search, team and state, each empty when it is not given
Queries ==
    [search : {<<>>, <<"a">>, <<"A","L">>, <<"o">>},
     team : {<<>>, TeamX, TeamY},
     state : {<<>>, StateIL}]

\* the search text taken as it is written
search_filter_case_sensitive(players, search) ==
    IF search # <<>>
    THEN SelectSeq(players, LAMBDA p : Contains(p.name, search))
    ELSE players

\* search = request.args.get('search', '').lower();
\* [p for p in players if search in p.get('name', '').lower()]
search_filter(players, search) ==
    IF Lower(search) # <<>>
    THEN SelectSeq(players, LAMBDA p : Contains(Lower(p.name), Lower(search)))
    ELSE players

\* [p for p in players if p.get('team') == selected_team]
team_filter(players, selected_team) ==
    IF selected_team # <<>>
    THEN SelectSeq(players, LAMBDA p : p.team = selected_team)
    ELSE players

\* [p for p in players if p.get('hometown_state') == selected_state]
state_filter(players, selected_state) ==
    IF selected_state # <<>>
    THEN SelectSeq(players, LAMBDA p : p.hometown_state = selected_state)
    ELSE players

\* league_view from "# Filters" to "# Sort by name": the players the
\* template lists, one row each
league_view_players(players, query) ==
    sort_by_name(state_filter(team_filter(search_filter(players, query.search),
                                          query.team),
                              query.state))

InitLeagueView ==
    /\ fn = "league_view"
    /\ files \in DistinctSeqsUpTo(StoredPlayers, MaxPlayers)
    /\ arg \in Queries
    /\ ret = <<>>
    /\ league = "none" /\ unified = <<>> /\ runs = 0

LeagueViewPlayersCall ==
    /\ fn = "league_view" /\ ret = <<>>
    /\ Returned(league_view_players(files, arg))

NextLeagueView ==
    \/ LeagueViewPlayersCall

SpecLeagueView == InitLeagueView /\ [][NextLeagueView]_vars

-----------------------------------------------------------------------------
(* Properties of the player list, checked under SpecLeagueView             *)

\* the conditions of the request on one stored player
Wanted(p) ==
    /\ arg.search # <<>> => Contains(Lower(p.name), Lower(arg.search))
    /\ arg.team # <<>> => p.team = arg.team
    /\ arg.state # <<>> => p.hometown_state = arg.state

OrderedByName(players) ==
    \A i, j \in 1..Len(players) : i < j => ~StrLess(players[j].name, players[i].name)

\* C23: /league/<code> shows exactly the stored players whose name contains
\* the search text without regard to case, whose team is the team parameter
\* and whose hometown_state is the state parameter, each condition applied
\* only when its parameter is not empty, ordered by name, every player's
\* stored fields unchanged.
C23_ShowsExactlyTheWantedPlayers ==
    ret # <<>> =>
        /\ Range(ret[1]) = {p \in Range(files) : Wanted(p)}
        /\ Len(ret[1]) = Cardinality(Range(ret[1]))
        /\ OrderedByName(ret[1])

\* a search written in capitals has found the players named Al and alb, out
\* of a list that was stored in another order
C23_Witness_SearchIgnoresCase ==
    /\ ret # <<>>
    /\ arg.search = <<"A","L">> /\ arg.team = <<>> /\ arg.state = <<>>
    /\ Len(files) = 3 /\ files[1].name = <<"a","l","b">>
    /\ Len(ret[1]) = 2
    /\ ret[1][1].name = <<"A","l">> /\ ret[1][2].name = <<"a","l","b">>

-----------------------------------------------------------------------------
(* The height round trip, checked under SpecCalls                          *)

\* feet * 12 + inches differs from cm / 2.54 = cm * 50 / 127 by at most one
WithinAnInch(height, cm) ==
    /\ height # NoHeight
    /\ (height[1] * InchesPerFoot + height[2]) * InchDenominator - cm * InchNumerator
           \in (0 - InchDenominator)..InchDenominator

\* the LBA join gets the centimetres inside a string
CmStrings(cm) == {DigitsOf(cm) \o <<" ","c","m">>, DigitsOf(cm) \o <<"C","M">>}

\* C24: for every height cm > 0, the (feet, inches) a join's conversion
\* gives, taken back to feet * 12 + inches, differs from cm / 2.54 by at
\* most one inch.
C24_RoundTripWithinAnInch ==
    /\ (fn \in HeightCalls /\ Len(ret) = 1 /\ arg > 0) => WithinAnInch(ret[1], arg)
    /\ (fn = "lba_cm_to_feet_inches" /\ Len(ret) = 1) =>
           \A cm \in 1..MaxCm : arg \in CmStrings(cm) => WithinAnInch(ret[1], cm)

\* 200 cm is 78.74 inches, which the ESAKE join cuts to 6 ft 6 in
C24_Witness_TruncatedHeight ==
    fn = "esake_height" /\ arg = 200 /\ ret = << <<6, 6>> >>

-----------------------------------------------------------------------------
(* Normalizing a name that is not there, checked under SpecCalls           *)

\* C25: every name normalization that builds or queries a join key, the
\* inline one of the BSL join included, returns the empty string for an
\* empty name and for None, and does not raise.
C25_EmptyNameNormalizesToEmpty ==
    (/\ fn \in Normalizers \cup {"bsl_inline_name_norm"}
     /\ Len(ret) >= 1
     /\ arg \in {None, <<>>}) => ret[1] = <<>>

-----------------------------------------------------------------------------
(* A join run after a join run, checked under SpecDir                      *)

\* C26: a league's join run right after a run of the same join, with no
\* scraper run in between, leaves the same unified player records as the
\* first run left.
C26_SecondJoinSameRecords ==
    [][(JoinRan /\ ret = <<"saved">> /\ JoinRan') =>
          /\ ret' = <<"saved">>
          /\ LatestUnified(files') = LatestUnified(files)]_vars

-----------------------------------------------------------------------------
(* ESAKE box score scraper: the game table built from the teams' schedules *)

GameIds == {<<"A","1">>, <<"B","2">>}

\* what parse_score finds in a row of a team's schedule page: no score, or
\* two numbers of two or three digits ("00 - 00" is one)
ParsedScores == {<<NoneInt, NoneInt>>, <<0, 0>>, <<85, 71>>}

\* the rows of the schedule pages: a game appears on the page of each of its
\* two teams, and a page may show it with or without its date and score
ScheduleRows == [game_id : GameIds, date : {None, Date1}, score : ParsedScores]

\* the most rows merged in one run
MaxRows == 3

\* fetch_team_schedule: the game_info of one row
game_info(row) ==
    LET scored == row.score[1] # NoneInt /\ row.score[2] # NoneInt
    IN  [game_id |-> row.game_id, date |-> row.date,
         home_score |-> IF scored THEN row.score[1] ELSE NoneInt,
         away_score |-> IF scored THEN row.score[2] ELSE NoneInt,
         played |-> scored]

\* a number that Python takes as true
TruthyInt(n) == n # NoneInt /\ n # 0

\* (variant: the game seen last replaces the entry)
merge_game_last_wins(all_games, game) ==
    IF game.game_id \notin DOMAIN all_games
    THEN [id \in DOMAIN all_games \cup {game.game_id} |->
             IF id = game.game_id THEN game ELSE all_games[id]]
    ELSE [all_games EXCEPT ![game.game_id] = game]

\* fetch_all_game_ids, the body of `for game in games`
merge_game(all_games, game) ==
    IF game.game_id \notin DOMAIN all_games
    THEN [id \in DOMAIN all_games \cup {game.game_id} |->
             IF id = game.game_id THEN game ELSE all_games[id]]
    ELSE LET existing == all_games[game.game_id]
             updated == IF TruthyInt(game.home_score) /\ ~TruthyInt(existing.home_score)
                        THEN game ELSE existing
             dated == IF Truthy(game.date) /\ ~Truthy(updated.date)
                      THEN [updated EXCEPT !.date = game.date] ELSE updated
         IN  [all_games EXCEPT ![game.game_id] = dated]

\* `files` is all_games, `arg` the game merged last, `runs` the rows so far
InitMerge ==
    /\ fn = "fetch_all_game_ids"
    /\ files = <<>>
    /\ arg = <<>> /\ ret = <<>>
    /\ league = "esake" /\ unified = <<>> /\ runs = 0

MergeGame ==
    /\ runs < MaxRows
    /\ \E row \in ScheduleRows :
           /\ files' = merge_game(files, game_info(row))
           /\ arg' = game_info(row)
    /\ runs' = runs + 1
    /\ UNCHANGED <<fn, ret, league, unified>>

NextMerge ==
    \/ MergeGame

SpecMerge == InitMerge /\ [][NextMerge]_vars

-----------------------------------------------------------------------------
(* Properties of the game table, checked under SpecMerge                   *)

PlayedWithScores(game) ==
    game.played /\ game.home_score # NoneInt /\ game.away_score # NoneInt

\* C27: while the schedules are merged the table keeps one entry per game
\* id, and an entry that is played with both scores is never changed back
\* to unplayed or left without a score by a later schedule.
C27_PlayedEntryStaysPlayed ==
    /\ [](\A id \in DOMAIN files : files[id].game_id = id)
    /\ [][\A id \in DOMAIN files :
              PlayedWithScores(files[id]) =>
                  id \in DOMAIN files' /\ PlayedWithScores(files'[id])]_vars

\* a game entered as played, at 0 - 0, has met a later row that shows it
\* without a score, and is still played
C27_Witness_LaterRowWithoutScore ==
    /\ runs >= 2
    /\ arg # <<>> /\ ~arg.played
    /\ arg.game_id \in DOMAIN files
    /\ PlayedWithScores(files[arg.game_id])
    /\ files[arg.game_id].home_score = 0

-----------------------------------------------------------------------------
(* LBA: the scan of the game pages by id, in lba_scraper.py                *)
(* fetch_all_games_by_id and in lba_boxscore_scraper.py main               *)

start_id == 25009
end_id == 25300

Scanners == {"lba_scraper", "lba_boxscore_scraper"}

max_consecutive_misses(scanner) ==
    IF scanner = "lba_scraper" THEN 20 ELSE 30

\* what one fetch of a game page comes to: the game's data, None (request
\* failed, no __NEXT_DATA__ script, no match in it; in the box score scraper
\* also JSON that does not parse, and a game without scores), or an
\* exception that the fetch function does not catch (fetch_game_data catches
\* requests.RequestException only, so JSON that does not parse raises out of
\* it; fetch_box_score catches RequestException, JSONDecodeError and
\* KeyError, so JSON that is not an object raises AttributeError out of it)
FetchOutcomes == {"game", "none", "raises"}

\* `arg` is the loop's position: the id the loop is at, the misses counted,
\* the id requested last and how the loop stands; `runs` counts the fetches
InitScan ==
    /\ fn \in Scanners
    /\ arg = [game_id |-> start_id, consecutive_misses |-> 0,
              requested |-> NoneInt, loop |-> "running"]
    /\ runs = 0
    /\ ret = <<>> /\ league = "lba" /\ files = <<>> /\ unified = <<>>

\* one pass of `for game_id in range(start_id, end_id)` that fetches
FetchGame ==
    /\ arg.loop = "running"
    /\ arg.game_id < end_id
    /\ arg.consecutive_misses < max_consecutive_misses(fn)
    /\ \E outcome \in FetchOutcomes :
           arg' = [game_id |-> IF outcome = "raises" THEN arg.game_id
                               ELSE arg.game_id + 1,
                   consecutive_misses |->
                       IF outcome = "game" THEN 0
                       ELSE IF outcome = "none" THEN arg.consecutive_misses + 1
                       ELSE arg.consecutive_misses,
                   requested |-> arg.game_id,
                   loop |-> IF outcome = "raises" THEN "raised" ELSE "running"]
    /\ runs' = runs + 1
    /\ UNCHANGED <<fn, ret, league, files, unified>>

\* the pass that finds consecutive_misses >= max_consecutive_misses: break
StopAfterMisses ==
    /\ arg.loop = "running"
    /\ arg.game_id < end_id
    /\ arg.consecutive_misses >= max_consecutive_misses(fn)
    /\ arg' = [arg EXCEPT !.loop = "stopped"]
    /\ UNCHANGED <<fn, ret, league, files, unified, runs>>

\* the range is used up
RangeEnds ==
    /\ arg.loop = "running"
    /\ arg.game_id = end_id
    /\ arg' = [arg EXCEPT !.loop = "ended"]
    /\ UNCHANGED <<fn, ret, league, files, unified, runs>>

NextScan ==
    \/ FetchGame
    \/ StopAfterMisses
    \/ RangeEnds

SpecScan == InitScan /\ [][NextScan]_vars

-----------------------------------------------------------------------------
(* Properties of the scan, checked under SpecScan                          *)

Scanning == fn \in Scanners

\* C28: the scan requests the ids in increasing order from start_id, makes
\* at most end_id - start_id fetches, and is over before the range is used
\* up exactly when the failed fetches in a row have reached the maximum,
\* with no fetch after that.
C28_ScanStopsOnlyAtMaxMisses ==
    /\ [](Scanning => runs <= end_id - start_id)
    /\ [][Scanning /\ runs' # runs =>
              /\ arg'.requested = IF arg.requested = NoneInt THEN start_id
                                  ELSE arg.requested + 1
              /\ arg.consecutive_misses < max_consecutive_misses(fn)]_vars
    /\ [](Scanning /\ arg.loop \notin {"running", "ended"} =>
              arg.consecutive_misses = max_consecutive_misses(fn))
    /\ [](Scanning /\ arg.loop = "ended" => arg.game_id = end_id)

-----------------------------------------------------------------------------
(* BBL: daily_scraper.py and bbl_stats_scraper.py both save                *)
(* bbl_american_stats_latest.json, and hometown_lookup.py loads it         *)

JustinBean == <<"J","u","s","t","i","n"," ","B","e","a","n">>
KarimJallow == <<"K","a","r","i","m"," ","J","a","l","l","o","w">>
Ulm == <<"U","l","m">>
Guard == <<"G","u","a","r","d">>
USA == <<"U","S","A">>
Germany == <<"G","e","r","m","a","n","y">>

\* the players of the league, as TheSportsDB and easycredit-bbl.de show them
LeaguePlayers ==
    {[name |-> JustinBean, nationality |-> USA, team |-> Ulm, position |-> Guard, ppg |-> 12],
     [name |-> FrankBartley, nationality |-> USA, team |-> Ulm, position |-> Guard, ppg |-> 17],
     [name |-> KarimJallow, nationality |-> Germany, team |-> Ulm, position |-> Guard, ppg |-> 9]}

\* the most players on the league's roster
MaxRoster == 2

BblRosters == DistinctSeqsUpTo(LeaguePlayers, MaxRoster) \ {<<>>}

\* daily_scraper.py is_american(nationality)
is_american(nationality) ==
    IF ~Truthy(nationality) THEN FALSE
    ELSE Lower(nationality) \in {<<"u","n","i","t","e","d"," ","s","t","a","t","e","s">>, Lower(USA), <<"a","m","e","r","i","c","a","n">>}

\* daily_scraper.py process_players, for one player (of its fourteen fields
\* those no other script's record has are birthplace and height_cm)
process_player(player) ==
    [id |-> player.name, name |-> player.name, nationality |-> player.nationality,
     position |-> player.position, birthplace |-> None, height_cm |-> NoneInt,
     team |-> player.team]

\* daily_scraper.py main, step 2: american_data
american_data(roster) ==
    [source |-> "thesportsdb.com",
     players |-> SelectSeq([i \in 1..Len(roster) |-> process_player(roster[i])],
                           LAMBDA p : is_american(p.nationality))]

\* bbl_stats_scraper.py parse_player_stats, for one entry (of its fields the
\* season totals other than games_played and the shooting figures are left out)
parse_player_stat(player) ==
    [id |-> player.name, name |-> player.name, team |-> player.team,
     position |-> player.position, games_played |-> 10,
     ppg |-> player.ppg, rpg |-> 0, apg |-> 0]

\* bbl_stats_scraper.py identify_americans: the names it knows (two of the
\* list) and the suffixes it takes for American
known_americans == {JustinBean, <<"C","o","r","e","y"," ","D","a","v","i","s">>}
american_indicators == {<<"J","r",".">>, <<"J","r">>, <<"I","I","I">>, <<"I","I">>}

identify_americans(players) ==
    LET american(p) == \/ \E known \in known_americans : Contains(p.name, known)
                       \/ \E ind \in american_indicators : Contains(p.name, ind)
        chosen == SelectSeq(players, american)
    IN  [i \in 1..Len(chosen) |->
            [f \in DOMAIN chosen[i] \cup {"nationality"} |->
                IF f = "nationality" THEN USA ELSE chosen[i][f]]]

\* bbl_stats_scraper.py main: american_stats_output
american_stats_output(roster) ==
    [source |-> "easycredit-bbl.de",
     players |-> identify_americans(
                     sort_by_ppg_desc([i \in 1..Len(roster) |-> parse_player_stat(roster[i])]))]

\* hometown_lookup.py load_bbl_players, of the latest file's content
bbl_players_of(latest) == IF latest = <<>> THEN <<>> ELSE latest.players

\* hometown_lookup.py main: what it takes from each player
player_result(player) ==
    [name |-> GetOr(player, "name", <<>>), team |-> GetOr(player, "team", <<"U","n","k","n","o","w","n">>),
     position |-> GetOr(player, "position", None),
     ppg |-> GetOr(player, "ppg", NoneInt), rpg |-> GetOr(player, "rpg", NoneInt),
     apg |-> GetOr(player, "apg", NoneInt),
     games_played |-> GetOr(player, "games_played", NoneInt)]

player_results(players) == [i \in 1..Len(players) |-> player_result(players[i])]

\* `arg` is the league's roster, `files` the content of
\* bbl_american_stats_latest.json (<<>> while there is none), `unified` the
\* position of each scraper, `runs` the scraper runs started, `ret` what the
\* hometown lookup took from the file when it ran last
InitBbl ==
    /\ arg \in BblRosters
    /\ files = <<>>
    /\ unified = [daily_scraper |-> "not run", bbl_stats_scraper |-> "not run"]
    /\ runs = 0
    /\ fn = "none" /\ ret = <<>> /\ league = "bbl"

\* daily_scraper.py main up to the save of the American players
BblDailyScraperFetches ==
    /\ unified.daily_scraper # "fetched" /\ runs < MaxRuns
    /\ unified' = [unified EXCEPT !.daily_scraper = "fetched"]
    /\ runs' = runs + 1
    /\ fn' = "daily_scraper"
    /\ UNCHANGED <<arg, files, ret, league>>

\* save_json(american_data, 'bbl_american_stats_latest.json')
BblDailyScraperSaves ==
    /\ unified.daily_scraper = "fetched"
    /\ files' = american_data(arg)
    /\ unified' = [unified EXCEPT !.daily_scraper = "saved"]
    /\ fn' = "daily_scraper"
    /\ UNCHANGED <<arg, ret, league, runs>>

\* bbl_stats_scraper.py main up to its saves; `if not raw_stats: return`
BblStatsScraperFetches ==
    /\ unified.bbl_stats_scraper # "fetched" /\ runs < MaxRuns
    /\ \E stats_fetched \in BOOLEAN :
           unified' = [unified EXCEPT !.bbl_stats_scraper =
                          IF stats_fetched THEN "fetched"
                          ELSE IF @ = "saved" THEN "saved" ELSE "not run"]
    /\ runs' = runs + 1
    /\ fn' = "bbl_stats_scraper"
    /\ UNCHANGED <<arg, files, ret, league>>

\* save_json(american_stats_output, 'bbl_american_stats_latest.json')
BblStatsScraperSaves ==
    /\ unified.bbl_stats_scraper = "fetched"
    /\ files' = american_stats_output(arg)
    /\ unified' = [unified EXCEPT !.bbl_stats_scraper = "saved"]
    /\ fn' = "bbl_stats_scraper"
    /\ UNCHANGED <<arg, ret, league, runs>>

\* hometown_lookup.py main, up to the lookups
BblHometownLookupLoads ==
    /\ ret' = <<player_results(bbl_players_of(files))>>
    /\ fn' = "hometown_lookup"
    /\ UNCHANGED <<arg, files, unified, league, runs>>

NextBbl ==
    \/ BblDailyScraperFetches
    \/ BblDailyScraperSaves
    \/ BblStatsScraperFetches
    \/ BblStatsScraperSaves
    \/ BblHometownLookupLoads

SpecBbl == InitBbl /\ [][NextBbl]_vars

-----------------------------------------------------------------------------
(* Properties of the BBL latest file, checked under SpecBbl                *)

BothScrapersSaved ==
    /\ league = "bbl" /\ DOMAIN unified = {"daily_scraper", "bbl_stats_scraper"}
    /\ unified.daily_scraper = "saved" /\ unified.bbl_stats_scraper = "saved"

FieldsOf(players) == {DOMAIN players[i] : i \in 1..Len(players)}

SameDataset(a, b) ==
    /\ a.source = b.source
    /\ FieldsOf(a.players) = FieldsOf(b.players)
    /\ player_results(a.players) = player_results(b.players)

\* C30: once the daily scraper and the stats scraper have both saved, in
\* either order or overlapping, bbl_american_stats_latest.json holds the
\* dataset, with the record fields, that each of the two writes, so what
\* the hometown lookup takes from it is the same whichever saved last.
C30_LatestSameWhicheverSavedLast ==
    BothScrapersSaved =>
        /\ SameDataset(files, american_data(arg))
        /\ SameDataset(files, american_stats_output(arg))
        /\ (fn = "hometown_lookup" =>
                /\ ret = <<player_results(american_data(arg).players)>>
                /\ ret = <<player_results(american_stats_output(arg).players)>>)

====
